---- MODULE Spec2Model ----
(***************************************************************************)
(* A model of the methyltransferase EC-grouping scripts:                   *)
(*   ec_to_type.py                  (name classifier)                      *)
(*   assign_groups_to_ec_summary.py (reference parser + group resolver)    *)
(*   split_mt2_by_group.py          (reference parsers + group resolver)   *)
(*   MT_split_by_ec.py              (EC extraction + split by EC)          *)
(* Strings are sequences of one-character strings, so that the regular     *)
(* expressions of the scripts are matched character by character.          *)
(***************************************************************************)
EXTENDS Integers, Sequences, FiniteSets, TLC

VARIABLES
    mode,           \* which part of the program this behaviour exercises
    \* --- group resolver ---
    ecs,            \* the EC list of one row
    ecs_b,          \* a second EC list with the same set of elements
    ec_to_group,    \* the EC -> group dictionary
    res_summary,    \* results of choose_group_for_ecs on <<ecs, ecs_b>>
    res_split,      \* results of decide_row_group on <<ecs, ecs_b>>
    \* --- name classifier ---
    in_name,        \* the enzyme name, a sequence of characters
    in_status,      \* OK, TRANSFERRED or DELETED
    tag,            \* the result of classify(in_name, in_status)
    \* --- EC extraction ---
    ex_p,           \* text before the EC
    ex_e,           \* the EC string
    ex_s,           \* text after the EC
    text,           \* the field value handed to extract_ec_list
    found,          \* the result of extract_ec_list(text)
    \* --- reference parsers ---
    parser,         \* which parser reads the reference
    lines,          \* the reference file, a sequence of lines
    df,             \* a data frame: the reference table, or the frame of main
    pos,            \* the next line (or row) to consume
    current_group,  \* the group of the section being read
    \* --- runs of the table-consuming scripts ---
    script,         \* the script whose main runs
    pc,             \* the position of the run in main
    args,           \* the parsed command line
    table,          \* the input table file, as pd.read_csv returns it
    outputs,        \* the files written so far: file name -> content
    error,          \* the exception that ended the run, or None
    gi,             \* the loop index over the groups to write
    \* --- run of ec_to_type.py ---
    records,        \* rows: the records parsed so far (sorted after the loop)
    skipped,        \* the number of lines that matched no EC + name
    out_file        \* the lines of the written file, or Pending

resolverVars == <<ecs, ecs_b, res_summary, res_split>>
classifierVars == <<in_name, in_status, tag>>
extractVars == <<ex_p, ex_e, ex_s, text, found>>
parseVars == <<parser, lines, df, pos, current_group>>
runVars == <<script, pc, args, table, outputs, error, gi>>
typeVars == <<records, skipped, out_file>>
vars == <<mode, ec_to_group, resolverVars, classifierVars, extractVars, parseVars,
          runVars, typeVars>>

\* Python's None, and the value of a result not computed yet.
None == "None"
Pending == "<pending>"

Range(s) == {s[i] : i \in 1..Len(s)}

\* All sequences over S of length at most n.
SeqsUpTo(S, n) == UNION {[1..k -> S] : k \in 0..n}

\* The parts of the state a behaviour does not use stay at these values.
ResolverIdle ==
    ecs = <<>> /\ ecs_b = <<>> /\ res_summary = Pending /\ res_split = Pending
ClassifierIdle == in_name = <<>> /\ in_status = Pending /\ tag = Pending
DictIdle == ec_to_group = <<>>
ExtractIdle ==
    ex_p = <<>> /\ ex_e = <<>> /\ ex_s = <<>> /\ text = <<>> /\ found = Pending
ParseIdle ==
    /\ parser = None /\ lines = <<>> /\ df = <<>> /\ pos = 0
    /\ current_group = None
RunIdle ==
    /\ script = None /\ pc = None /\ args = <<>> /\ table = <<>>
    /\ outputs = <<>> /\ error = None /\ gi = 0
TypeIdle == records = <<>> /\ skipped = 0 /\ out_file = Pending

-----------------------------------------------------------------------------
(* Bounds *)

\* longest EC list of a row
MaxEcs == 3
\* most fragments a generated enzyme name is made of
MaxFrags == 3
\* most fragments in the text before, and in the text after, an EC
MaxAffix == 2
\* most lines of a sectioned reference file
MaxLines == 4
\* most rows of a reference table
MaxRows == 3
\* most rows of the input table of a run
MaxDataRows == 2
\* most lines of the input file of ec_to_type.py
MaxInLines == 3

-----------------------------------------------------------------------------
(* Characters and regular-expression primitives *)

UpperLetters ==
    <<"A", "B", "C", "D", "E", "F", "G", "H", "I", "J", "K", "L", "M", "N",
      "O", "P", "Q", "R", "S", "T", "U", "V", "W", "X", "Y", "Z">>
LowerLetters ==
    <<"a", "b", "c", "d", "e", "f", "g", "h", "i", "j", "k", "l", "m", "n",
      "o", "p", "q", "r", "s", "t", "u", "v", "w", "x", "y", "z">>
Digits == {"0", "1", "2", "3", "4", "5", "6", "7", "8", "9"}

\* the tab character, and U+2032 (the Unicode prime), each one character
TAB == "<TAB>"
PRIME == "<U+2032>"

\* \w of the re module: letters, digits and the underscore
WordChars == Range(UpperLetters) \cup Range(LowerLetters) \cup Digits \cup {"_"}
IsWordChar(c) == c \in WordChars

\* str.lower() and re.IGNORECASE on one character
LowerOf ==
    [c \in Range(UpperLetters) |->
        LowerLetters[CHOOSE i \in 1..Len(UpperLetters) : UpperLetters[i] = c]]
LowerChar(c) == IF c \in DOMAIN LowerOf THEN LowerOf[c] ELSE c

\* str.lower()
Lower(s) == [i \in 1..Len(s) |-> LowerChar(s[i])]

\* is position i of s (1..Len(s)) a word character; FALSE outside the string
WordAt(s, i) == i >= 1 /\ i <= Len(s) /\ IsWordChar(s[i])

\* \b between positions i-1 and i of s (i in 1..Len(s)+1)
BoundaryAt(s, i) == WordAt(s, i - 1) # WordAt(s, i)

\* does the literal lit occur in s at position i
LitAt(s, lit, i) ==
    /\ i >= 1
    /\ i + Len(lit) - 1 <= Len(s)
    /\ s[i] = lit[1]
    /\ SubSeq(s, i, i + Len(lit) - 1) = lit

\* re.search of a literal pattern (lowercase) in s, case-insensitive
SearchLit(s, lit) ==
    LET low == Lower(s) IN \E i \in 1..Len(s) : LitAt(low, lit, i)

\* re.search of \b<lit>\b in s, case-insensitive
SearchWord(s, lit) ==
    LET low == Lower(s)
    IN  \E i \in 1..Len(s) :
            /\ LitAt(low, lit, i)
            /\ BoundaryAt(low, i)
            /\ BoundaryAt(low, i + Len(lit))

\* the end of the run of digits that starts at position i (i-1 when none)
RECURSIVE DigitsEnd(_, _)
DigitsEnd(s, i) ==
    IF i <= Len(s) /\ s[i] \in Digits THEN DigitsEnd(s, i + 1) ELSE i - 1

\* <letter>\(\d+\) at position i of the lowercased string
ParenDigitsAt(low, letter, i) ==
    /\ LitAt(low, <<letter, "(">>, i)
    /\ LET e == DigitsEnd(low, i + 2)
       IN  e >= i + 2 /\ e + 1 <= Len(low) /\ low[e + 1] = ")"

-----------------------------------------------------------------------------
(* Strings used by several parts of the model *)

EC_2_1_1_1 ==
    <<"2", ".", "1", ".", "1", ".", "1">>
EC_2_1_1_63 ==
    <<"2", ".", "1", ".", "1", ".", "6", "3">>
EC_2_1_1_9 ==
    <<"2", ".", "1", ".", "1", ".", "9">>
EC_2_1_1_wild ==
    <<"2", ".", "1", ".", "1", ".", "-">>
Group_O_MT ==
    <<"O", "_", "M", "T">>
Group_N_MT ==
    <<"N", "_", "M", "T">>
Group_C_MT ==
    <<"C", "_", "M", "T">>
Tag_NO_EC ==
    <<"N", "O", "_", "E", "C">>
Tag_UNKNOWN ==
    <<"U", "N", "K", "N", "O", "W", "N">>
Tag_MIXED ==
    <<"M", "I", "X", "E", "D">>
Tag_MULTIPLE ==
    <<"M", "U", "L", "T", "I", "P", "L", "E">>

-----------------------------------------------------------------------------
(* EC numbers and groups used as inputs of the resolver *)

ResolverECs == {EC_2_1_1_1, EC_2_1_1_63, EC_2_1_1_9}
ResolverGroups == {Group_N_MT, Group_C_MT}

\* Every dictionary over a subset of the ECs.
Dicts(E, G) == UNION {[S -> G] : S \in SUBSET E}

\* dict.get(ec): the group, or None
DictGet(d, ec) == IF ec \in DOMAIN d THEN d[ec] ELSE None

-----------------------------------------------------------------------------
(* Group resolver: the loop shared by both implementations *)

\* groups.append(g) for every EC found in the dictionary, in list order
RECURSIVE MappedGroups(_, _)
MappedGroups(ec_list, d) ==
    IF ec_list = <<>> THEN <<>>
    ELSE LET g == DictGet(d, Head(ec_list))
         IN  IF g = None THEN MappedGroups(Tail(ec_list), d)
             ELSE <<g>> \o MappedGroups(Tail(ec_list), d)

\* unknown += 1 for every EC absent from the dictionary
RECURSIVE UnknownCount(_, _)
UnknownCount(ec_list, d) ==
    IF ec_list = <<>> THEN 0
    ELSE (IF DictGet(d, Head(ec_list)) = None THEN 1 ELSE 0)
         + UnknownCount(Tail(ec_list), d)

\* A resolver that forgets the known+unknown case.
choose_group_for_ecs_NoMixed(ec_list, d) ==
    IF ec_list = <<>> THEN Tag_NO_EC
    ELSE LET groups == MappedGroups(ec_list, d)
             unknown == UnknownCount(ec_list, d)
             groups_set == Range(groups)
         IN  IF groups = <<>> /\ unknown # 0 THEN Tag_UNKNOWN
             ELSE IF Cardinality(groups_set) = 1
                  THEN CHOOSE g \in groups_set : TRUE
                  ELSE Tag_MULTIPLE

\* assign_groups_to_ec_summary.py: choose_group_for_ecs
choose_group_for_ecs(ec_list, d) ==
    IF ec_list = <<>> THEN Tag_NO_EC
    ELSE LET groups == MappedGroups(ec_list, d)
             unknown == UnknownCount(ec_list, d)
             groups_set == Range(groups)
         IN  IF groups = <<>> /\ unknown # 0 THEN Tag_UNKNOWN
             ELSE IF groups # <<>> /\ unknown # 0 THEN Tag_MIXED
             ELSE IF Cardinality(groups_set) = 1
                  THEN CHOOSE g \in groups_set : TRUE
                  ELSE Tag_MULTIPLE

\* A resolver that answers from the first mapped EC only.
decide_row_group_FirstOnly(ec_list, d) ==
    IF ec_list = <<>> THEN Tag_NO_EC
    ELSE LET groups == MappedGroups(ec_list, d)
             unknown == UnknownCount(ec_list, d)
         IN  IF groups = <<>> /\ unknown # 0 THEN Tag_UNKNOWN
             ELSE IF groups # <<>> /\ unknown # 0 THEN Tag_MIXED
             ELSE IF Len(groups) = 1 \/ groups[1] = groups[Len(groups)]
                  THEN groups[1]
                  ELSE Tag_MULTIPLE

\* split_mt2_by_group.py: decide_row_group
decide_row_group(ec_list, d) ==
    IF ec_list = <<>> THEN Tag_NO_EC
    ELSE LET groups == MappedGroups(ec_list, d)
             unknown == UnknownCount(ec_list, d)
         IN  IF groups = <<>> /\ unknown # 0 THEN Tag_UNKNOWN
             ELSE IF groups # <<>> /\ unknown # 0 THEN Tag_MIXED
             ELSE LET gs == Range(groups)
                  IN  IF Cardinality(gs) = 1
                      THEN CHOOSE g \in gs : TRUE
                      ELSE Tag_MULTIPLE

-----------------------------------------------------------------------------
(* Specification of the resolver: both implementations are applied to a    *)
(* row's EC list and to a second list holding the same set of ECs.         *)

InitResolve ==
    /\ mode = "resolve"
    /\ ecs \in SeqsUpTo(ResolverECs, MaxEcs)
    /\ ecs_b \in SeqsUpTo(ResolverECs, MaxEcs)
    /\ Range(ecs_b) = Range(ecs)
    /\ ec_to_group \in Dicts(ResolverECs, ResolverGroups)
    /\ res_summary = Pending
    /\ res_split = Pending
    /\ ClassifierIdle /\ ExtractIdle /\ ParseIdle /\ RunIdle /\ TypeIdle

\* df["MT_group"] = df["_ecs"].apply(choose_group_for_ecs) on the two rows
ChooseGroupForEcs ==
    /\ mode = "resolve"
    /\ res_summary = Pending
    /\ res_summary' = <<choose_group_for_ecs(ecs, ec_to_group),
                        choose_group_for_ecs(ecs_b, ec_to_group)>>
    /\ UNCHANGED <<typeVars, runVars, mode, ec_to_group, ecs, ecs_b, res_split, classifierVars, extractVars,
                   parseVars>>

\* df["MT_group"] = df["_ec_list"].apply(decide_row_group) on the two rows
DecideRowGroup ==
    /\ mode = "resolve"
    /\ res_split = Pending
    /\ res_split' = <<decide_row_group(ecs, ec_to_group),
                      decide_row_group(ecs_b, ec_to_group)>>
    /\ UNCHANGED <<typeVars, runVars, mode, ec_to_group, ecs, ecs_b, res_summary, classifierVars, extractVars,
                   parseVars>>

NextResolve == ChooseGroupForEcs \/ DecideRowGroup

SpecResolve == InitResolve /\ [][NextResolve]_vars

-----------------------------------------------------------------------------
(* Claims about the resolver *)

Resolved == res_summary # Pending /\ res_split # Pending

MappedSet == Range(ecs) \cap DOMAIN ec_to_group
UnmappedSet == Range(ecs) \ DOMAIN ec_to_group
GroupsOfRow == {ec_to_group[e] : e \in MappedSet}

CaseNoEc == ecs = <<>>
CaseUnknown == ecs # <<>> /\ MappedSet = {}
CaseMixed == MappedSet # {} /\ UnmappedSet # {}
CaseSame == ecs # <<>> /\ UnmappedSet = {} /\ Cardinality(GroupsOfRow) = 1
CaseMultiple == ecs # <<>> /\ UnmappedSet = {} /\ Cardinality(GroupsOfRow) >= 2

ExpectedLabel ==
    CASE CaseNoEc -> Tag_NO_EC
      [] CaseUnknown -> Tag_UNKNOWN
      [] CaseMixed -> Tag_MIXED
      [] CaseSame -> CHOOSE g \in GroupsOfRow : TRUE
      [] CaseMultiple -> Tag_MULTIPLE

\* C1: both resolvers return NO_EC for an empty list, UNKNOWN when no EC is
\* a key, MIXED when some are keys and some are not, the common group when
\* all are keys of one group, MULTIPLE when all are keys of two or more
\* groups; exactly one of the five cases applies to every input.
C1_FiveWayPartition ==
    /\ Cardinality({c \in {<<1, CaseNoEc>>, <<2, CaseUnknown>>, <<3, CaseMixed>>,
                           <<4, CaseSame>>, <<5, CaseMultiple>>} : c[2]}) = 1
    /\ res_summary # Pending => res_summary[1] = ExpectedLabel
    /\ res_split # Pending => res_split[1] = ExpectedLabel

\* the row "EC:2.1.1.1|2.1.1.63" of the spec's scenario has been resolved
C1_Witness ==
    /\ Resolved
    /\ ecs = <<EC_2_1_1_1, EC_2_1_1_63>>
    /\ ec_to_group = [e \in {EC_2_1_1_1, EC_2_1_1_63} |->
                        IF e = EC_2_1_1_1 THEN Group_N_MT ELSE Group_C_MT]
    /\ res_summary[1] = Tag_MULTIPLE /\ res_split[1] = Tag_MULTIPLE

\* C2: two EC lists with the same set of elements (any order, any
\* duplication) get the same label from each resolver.
C2_SetSemantics ==
    Range(ecs) = Range(ecs_b) =>
        /\ res_summary # Pending => res_summary[1] = res_summary[2]
        /\ res_split # Pending => res_split[1] = res_split[2]

\* a list and a reordered list with a duplicate have both been resolved
C2_Witness ==
    /\ Resolved
    /\ ecs = <<EC_2_1_1_1, EC_2_1_1_63>>
    /\ ecs_b = <<EC_2_1_1_63, EC_2_1_1_1, EC_2_1_1_63>>
    /\ EC_2_1_1_1 \in DOMAIN ec_to_group
    /\ EC_2_1_1_63 \in DOMAIN ec_to_group
    /\ ec_to_group[EC_2_1_1_1] # ec_to_group[EC_2_1_1_63]

-----------------------------------------------------------------------------
(* ec_to_type.py: the classification patterns *)

Pat_2p_o_ascii ==
    <<"2", "'", "-", "o">>
Pat_o_mt ==
    <<"o", "-", "m", "e", "t", "h", "y", "l", "t", "r", "a", "n", "s", "f",
      "e", "r", "a", "s", "e">>
Pat_n_mt ==
    <<"n", "-", "m", "e", "t", "h", "y", "l", "t", "r", "a", "n", "s", "f",
      "e", "r", "a", "s", "e">>
Pat_n_alpha ==
    <<"n", "(", "a", "l", "p", "h", "a", ")">>
Pat_c_mt ==
    <<"c", "-", "m", "e", "t", "h", "y", "l", "t", "r", "a", "n", "s", "f",
      "e", "r", "a", "s", "e">>
Pat_cytosine_5 ==
    <<"c", "y", "t", "o", "s", "i", "n", "e", "-", "5">>
Pat_s_mt ==
    <<"s", "-", "m", "e", "t", "h", "y", "l", "t", "r", "a", "n", "s", "f",
      "e", "r", "a", "s", "e">>
Pat_thiol ==
    <<"t", "h", "i", "o", "l">>
Pat_thioether ==
    <<"t", "h", "i", "o", "e", "t", "h", "e", "r">>
Pat_cysteine ==
    <<"c", "y", "s", "t", "e", "i", "n", "e">>
Pat_mercaptan ==
    <<"m", "e", "r", "c", "a", "p", "t", "a", "n">>
Pat_co_mt ==
    <<"c", "o", "-", "m", "e", "t", "h", "y", "l", "t", "r", "a", "n", "s",
      "f", "e", "r", "a", "s", "e">>
Pat_methyltransferase ==
    <<"m", "e", "t", "h", "y", "l", "t", "r", "a", "n", "s", "f", "e", "r",
      "a", "s", "e">>
Pat_s_adenosyl ==
    <<"s", "-", "a", "d", "e", "n", "o", "s", "y", "l">>

\* RE_2P_O: 2['′]-o
RE_2P_O(name) ==
    SearchLit(name, Pat_2p_o_ascii) \/ SearchLit(name, <<"2", PRIME, "-", "o">>)
\* RE_O_MT: \bo-methyltransferase\b
RE_O_MT(name) == SearchWord(name, Pat_o_mt)
\* RE_N_MT: \bn-methyltransferase\b
RE_N_MT(name) == SearchWord(name, Pat_n_mt)
\* RE_N_PAREN: \bn\(\d+\)|n\(alpha\)
RE_N_PAREN(name) ==
    LET low == Lower(name)
    IN  \E i \in 1..Len(name) :
            \/ BoundaryAt(low, i) /\ ParenDigitsAt(low, "n", i)
            \/ LitAt(low, Pat_n_alpha, i)
\* RE_C_MT: \bc-methyltransferase\b
RE_C_MT(name) == SearchWord(name, Pat_c_mt)
\* RE_C_PAREN: \bc\(\d+\)
RE_C_PAREN(name) ==
    LET low == Lower(name)
    IN  \E i \in 1..Len(name) : BoundaryAt(low, i) /\ ParenDigitsAt(low, "c", i)
\* RE_CYTOSINE_5: cytosine-5
RE_CYTOSINE_5(name) == SearchLit(name, Pat_cytosine_5)
\* RE_S_MT: \bs-methyltransferase\b
RE_S_MT(name) == SearchWord(name, Pat_s_mt)
\* RE_S_HINT: \bthiol\b|\bthioether\b|\bcysteine\b|\bmercaptan\b
RE_S_HINT(name) ==
    \/ SearchWord(name, Pat_thiol)
    \/ SearchWord(name, Pat_thioether)
    \/ SearchWord(name, Pat_cysteine)
    \/ SearchWord(name, Pat_mercaptan)
\* RE_CO_MT: \bco-methyltransferase\b
RE_CO_MT(name) == SearchWord(name, Pat_co_mt)
\* RE_MT_WORD: \bmethyltransferase\b
RE_MT_WORD(name) == SearchWord(name, Pat_methyltransferase)
\* "s-adenosyl" in name.lower()
HasSAdenosyl(name) == SearchLit(name, Pat_s_adenosyl)

ClassifierTags ==
    {"O_MT", "N_MT", "C_MT", "S_MT", "UNCLEAR", "OTHER", "TRANSFERRED", "DELETED"}
Statuses == {"OK", "TRANSFERRED", "DELETED"}

\* A classifier that tests the C rules before the Co- guard and the O rules.
classify_CFirst(name, status) ==
    IF status = "TRANSFERRED" THEN "TRANSFERRED"
    ELSE IF status = "DELETED" THEN "DELETED"
    ELSE IF RE_C_MT(name) \/ RE_C_PAREN(name) \/ RE_CYTOSINE_5(name) THEN "C_MT"
    ELSE IF RE_CO_MT(name) THEN "OTHER"
    ELSE IF RE_2P_O(name) \/ RE_O_MT(name) THEN "O_MT"
    ELSE IF RE_N_MT(name) \/ RE_N_PAREN(name) THEN "N_MT"
    ELSE IF \/ RE_S_MT(name)
            \/ (RE_MT_WORD(name) /\ RE_S_HINT(name) /\ ~HasSAdenosyl(name))
         THEN "S_MT"
    ELSE IF RE_MT_WORD(name) THEN "UNCLEAR"
    ELSE "OTHER"

\* A classifier whose Co- guard is a plain substring test for "co".
classify_CoSubstring(name, status) ==
    IF status = "TRANSFERRED" THEN "TRANSFERRED"
    ELSE IF status = "DELETED" THEN "DELETED"
    ELSE IF SearchLit(name, <<"c", "o">>) THEN "OTHER"
    ELSE IF RE_2P_O(name) \/ RE_O_MT(name) THEN "O_MT"
    ELSE IF RE_N_MT(name) \/ RE_N_PAREN(name) THEN "N_MT"
    ELSE IF RE_C_MT(name) \/ RE_C_PAREN(name) \/ RE_CYTOSINE_5(name) THEN "C_MT"
    ELSE IF \/ RE_S_MT(name)
            \/ (RE_MT_WORD(name) /\ RE_S_HINT(name) /\ ~HasSAdenosyl(name))
         THEN "S_MT"
    ELSE IF RE_MT_WORD(name) THEN "UNCLEAR"
    ELSE "OTHER"

\* A classifier that takes a carbon locant C<digits>- for a C-methyltransferase.
classify_CLocant(name, status) ==
    IF status = "TRANSFERRED" THEN "TRANSFERRED"
    ELSE IF status = "DELETED" THEN "DELETED"
    ELSE IF RE_CO_MT(name) THEN "OTHER"
    ELSE IF RE_2P_O(name) \/ RE_O_MT(name) THEN "O_MT"
    ELSE IF RE_N_MT(name) \/ RE_N_PAREN(name) THEN "N_MT"
    ELSE IF \/ RE_C_MT(name) \/ RE_C_PAREN(name) \/ RE_CYTOSINE_5(name)
            \/ LET low == Lower(name)
               IN  \E i \in 1..Len(name) :
                       /\ BoundaryAt(low, i) /\ low[i] = "c"
                       /\ LET e == DigitsEnd(low, i + 1)
                          IN  e >= i + 1 /\ LitAt(low, <<"-">> \o Pat_methyltransferase, e + 1)
         THEN "C_MT"
    ELSE IF \/ RE_S_MT(name)
            \/ (RE_MT_WORD(name) /\ RE_S_HINT(name) /\ ~HasSAdenosyl(name))
         THEN "S_MT"
    ELSE IF RE_MT_WORD(name) THEN "UNCLEAR"
    ELSE "OTHER"

\* A classifier without the "s-adenosyl" exclusion.
classify_NoAdenosylGuard(name, status) ==
    IF status = "TRANSFERRED" THEN "TRANSFERRED"
    ELSE IF status = "DELETED" THEN "DELETED"
    ELSE IF RE_CO_MT(name) THEN "OTHER"
    ELSE IF RE_2P_O(name) \/ RE_O_MT(name) THEN "O_MT"
    ELSE IF RE_N_MT(name) \/ RE_N_PAREN(name) THEN "N_MT"
    ELSE IF RE_C_MT(name) \/ RE_C_PAREN(name) \/ RE_CYTOSINE_5(name) THEN "C_MT"
    ELSE IF RE_S_MT(name) \/ (RE_MT_WORD(name) /\ RE_S_HINT(name)) THEN "S_MT"
    ELSE IF RE_MT_WORD(name) THEN "UNCLEAR"
    ELSE "OTHER"

\* A classifier that passes the status through instead of falling to OTHER.
classify_StatusFallthrough(name, status) ==
    IF status = "TRANSFERRED" THEN "TRANSFERRED"
    ELSE IF status = "DELETED" THEN "DELETED"
    ELSE IF RE_CO_MT(name) THEN "OTHER"
    ELSE IF RE_2P_O(name) \/ RE_O_MT(name) THEN "O_MT"
    ELSE IF RE_N_MT(name) \/ RE_N_PAREN(name) THEN "N_MT"
    ELSE IF RE_C_MT(name) \/ RE_C_PAREN(name) \/ RE_CYTOSINE_5(name) THEN "C_MT"
    ELSE IF \/ RE_S_MT(name)
            \/ (RE_MT_WORD(name) /\ RE_S_HINT(name) /\ ~HasSAdenosyl(name))
         THEN "S_MT"
    ELSE IF RE_MT_WORD(name) THEN "UNCLEAR"
    ELSE status

\* ec_to_type.py: classify
classify(name, status) ==
    IF status = "TRANSFERRED" THEN "TRANSFERRED"
    ELSE IF status = "DELETED" THEN "DELETED"
    ELSE IF RE_CO_MT(name) THEN "OTHER"
    ELSE IF RE_2P_O(name) \/ RE_O_MT(name) THEN "O_MT"
    ELSE IF RE_N_MT(name) \/ RE_N_PAREN(name) THEN "N_MT"
    ELSE IF RE_C_MT(name) \/ RE_C_PAREN(name) \/ RE_CYTOSINE_5(name) THEN "C_MT"
    ELSE IF \/ RE_S_MT(name)
            \/ (RE_MT_WORD(name) /\ RE_S_HINT(name) /\ ~HasSAdenosyl(name))
         THEN "S_MT"
    ELSE IF RE_MT_WORD(name) THEN "UNCLEAR"
    ELSE "OTHER"

-----------------------------------------------------------------------------
(* Inputs of the classifier: the names quoted in the specification, and    *)
(* every name made of at most MaxFrags fragments.                          *)

Name_AcetateCoA ==
    <<"A", "c", "e", "t", "a", "t", "e", " ", "C", "o", "A", "-", "m", "e",
      "t", "h", "y", "l", "t", "r", "a", "n", "s", "f", "e", "r", "a", "s",
      "e">>
Name_Precorrin4 ==
    <<"P", "r", "e", "c", "o", "r", "r", "i", "n", "-", "4", " ", "C", "1",
      "1", "-", "m", "e", "t", "h", "y", "l", "t", "r", "a", "n", "s", "f",
      "e", "r", "a", "s", "e">>
Name_SAdenosyl ==
    <<"S", "-", "a", "d", "e", "n", "o", "s", "y", "l", "m", "e", "t", "h",
      "i", "o", "n", "i", "n", "e", "-", "d", "e", "p", "e", "n", "d", "e",
      "n", "t", " ", "m", "e", "t", "h", "y", "l", "t", "r", "a", "n", "s",
      "f", "e", "r", "a", "s", "e">>
Name_Cobalt ==
    <<"C", "o", "b", "a", "l", "t", "-", "p", "r", "e", "c", "o", "r", "r",
      "i", "n", "-", "6", "Y", " ", "C", "5", "-", "m", "e", "t", "h", "y",
      "l", "t", "r", "a", "n", "s", "f", "e", "r", "a", "s", "e">>
Name_Nicotinamide ==
    <<"n", "i", "c", "o", "t", "i", "n", "a", "m", "i", "d", "e", " ", "N",
      "-", "m", "e", "t", "h", "y", "l", "t", "r", "a", "n", "s", "f", "e",
      "r", "a", "s", "e">>
Name_PrimeO ==
    <<"t", "R", "N", "A", " ", "2", PRIME, "-", "O", " ", "m", "e", "t", "h",
      "y", "l", "a", "s", "e">>
Name_CysteineSAM ==
    <<"S", "-", "a", "d", "e", "n", "o", "s", "y", "l", "-", "L", "-", "m",
      "e", "t", "h", "i", "o", "n", "i", "n", "e", " ", "c", "y", "s", "t",
      "e", "i", "n", "e", " ", "m", "e", "t", "h", "y", "l", "t", "r", "a",
      "n", "s", "f", "e", "r", "a", "s", "e">>

Frag_mt ==
    <<"-", "m", "e", "t", "h", "y", "l", "t", "r", "a", "n", "s", "f", "e",
      "r", "a", "s", "e">>
Frag_2p ==
    <<"2", "'", "-">>
Frag_p5 ==
    <<"(", "5", ")">>
Frag_palpha ==
    <<"(", "a", "l", "p", "h", "a", ")">>
Frag_cytosine ==
    <<"c", "y", "t", "o", "s", "i", "n", "e", "-", "5", " ">>
Frag_thiol ==
    <<"t", "h", "i", "o", "l">>
Frag_sadenosyl ==
    <<"S", "-", "a", "d", "e", "n", "o", "s", "y", "l">>

NameFragments ==
    {Frag_mt, <<"O">>, <<"N">>, <<"C">>, <<"S">>, <<"C", "o">>, <<" ">>,
     <<"x">>, Frag_2p, Frag_p5, Frag_palpha, Frag_cytosine, Frag_thiol,
     Frag_sadenosyl}

RECURSIVE Concat(_)
Concat(ss) == IF ss = <<>> THEN <<>> ELSE Head(ss) \o Concat(Tail(ss))

FragmentNames == {Concat(fs) : fs \in SeqsUpTo(NameFragments, MaxFrags)}

Name_CoAndO ==
    <<"C", "o", "-", "m", "e", "t", "h", "y", "l", "t", "r", "a", "n", "s",
      "f", "e", "r", "a", "s", "e", " ", "O", "-", "m", "e", "t", "h", "y",
      "l", "t", "r", "a", "n", "s", "f", "e", "r", "a", "s", "e">>
Name_OAndN ==
    <<"O", "-", "m", "e", "t", "h", "y", "l", "t", "r", "a", "n", "s", "f",
      "e", "r", "a", "s", "e", " ", "N", "-", "m", "e", "t", "h", "y", "l",
      "t", "r", "a", "n", "s", "f", "e", "r", "a", "s", "e">>
Name_NAndC ==
    <<"N", "(", "7", ")", "-", "g", "u", "a", "n", "i", "n", "e", " ", "C",
      "(", "5", ")", "-", "m", "e", "t", "h", "y", "l", "t", "r", "a", "n",
      "s", "f", "e", "r", "a", "s", "e">>
Name_CAndS ==
    <<"c", "y", "t", "o", "s", "i", "n", "e", "-", "5", " ", "S", "-", "m",
      "e", "t", "h", "y", "l", "t", "r", "a", "n", "s", "f", "e", "r", "a",
      "s", "e">>

\* names quoted in the specification and in the comments of ec_to_type.py
QuotedNames ==
    {Name_AcetateCoA, Name_Precorrin4, Name_SAdenosyl, Name_Cobalt,
     Name_Nicotinamide, Name_PrimeO, Name_CysteineSAM}

\* names that satisfy the conditions of two rules at once
OverlapNames == {Name_CoAndO, Name_OAndN, Name_NAndC, Name_CAndS}

ClassifierNames == FragmentNames \cup QuotedNames \cup OverlapNames

-----------------------------------------------------------------------------
(* Specification of the classifier *)

InitClassify ==
    /\ mode = "classify"
    /\ in_name \in ClassifierNames
    /\ in_status = Pending
    /\ tag = Pending
    /\ ResolverIdle /\ DictIdle /\ ExtractIdle /\ ParseIdle /\ RunIdle /\ TypeIdle

\* group = classify(name, status)
Classify ==
    /\ mode = "classify"
    /\ tag = Pending
    /\ \E st \in Statuses :
        /\ in_status' = st
        /\ tag' = classify(in_name, st)
    /\ UNCHANGED <<typeVars, runVars, mode, in_name, ec_to_group, resolverVars, extractVars, parseVars>>

NextClassify == Classify

SpecClassify == InitClassify /\ [][NextClassify]_vars

-----------------------------------------------------------------------------
(* Claims about the classifier *)

Classified == mode = "classify" /\ tag # Pending

\* the condition of rule i, in the order the claim lists the rules
RuleHolds(i, n, st) ==
    CASE i = 1 -> st \in {"TRANSFERRED", "DELETED"}
      [] i = 2 -> RE_CO_MT(n)
      [] i = 3 -> RE_2P_O(n) \/ RE_O_MT(n)
      [] i = 4 -> RE_N_MT(n) \/ RE_N_PAREN(n)
      [] i = 5 -> RE_C_MT(n) \/ RE_C_PAREN(n) \/ RE_CYTOSINE_5(n)
      [] i = 6 -> RE_S_MT(n) \/ (RE_MT_WORD(n) /\ RE_S_HINT(n) /\ ~HasSAdenosyl(n))
      [] i = 7 -> RE_MT_WORD(n)
      [] i = 8 -> TRUE

\* the tag of rule i
RuleTag(i, st) ==
    <<st, "OTHER", "O_MT", "N_MT", "C_MT", "S_MT", "UNCLEAR", "OTHER">>[i]

\* the first rule, from rule i on, whose condition holds
RECURSIVE FirstRuleFrom(_, _, _)
FirstRuleFrom(i, n, st) ==
    IF RuleHolds(i, n, st) THEN i ELSE FirstRuleFrom(i + 1, n, st)

FirstRuleTag(n, st) == RuleTag(FirstRuleFrom(1, n, st), st)

\* C3: classify returns the tag of the first rule, in the fixed order
\* status, Co- guard, O, N, C, S, methyltransferase word, otherwise, whose
\* condition holds; a name satisfying several conditions gets the earliest.
C3_FirstRuleWins == Classified => tag = FirstRuleTag(in_name, in_status)

\* a name matching the Co- guard and the O rule was classified OTHER, and
\* the rules of the classified name overlap
C3_Witness ==
    /\ Classified /\ in_status = "OK" /\ tag = "OTHER"
    /\ RE_CO_MT(in_name) /\ RE_O_MT(in_name)

\* C4 as stated: "Acetate CoA-methyltransferase" with status OK is OTHER,
\* because the Co-methyltransferase guard matches the name.
C4_AcetateCoAIsOther ==
    (Classified /\ in_name = Name_AcetateCoA /\ in_status = "OK") =>
        (tag = "OTHER" /\ RE_CO_MT(in_name))

\* C4 amended: "Acetate CoA-methyltransferase" with status OK is UNCLEAR:
\* the Co- guard does not match "CoA-methyltransferase", no atom rule
\* matches, and the methyltransferase-word rule does.
C4_AcetateCoAIsUnclear ==
    (Classified /\ in_name = Name_AcetateCoA /\ in_status = "OK") =>
        (tag = "UNCLEAR" /\ ~RE_CO_MT(in_name) /\ RE_MT_WORD(in_name))

\* "Acetate CoA-methyltransferase" has been classified with status OK
C4_Witness == Classified /\ in_name = Name_AcetateCoA /\ in_status = "OK"

\* C5 as stated: "Precorrin-4 C11-methyltransferase" with status OK is C_MT.
C5_C11IsCMT ==
    (Classified /\ in_name = Name_Precorrin4 /\ in_status = "OK") => tag = "C_MT"

\* C5 amended: "Precorrin-4 C11-methyltransferase" with status OK is
\* UNCLEAR: a locant written C<digits>- without parentheses matches none of
\* the C patterns, and the methyltransferase-word rule applies.
C5_C11IsUnclear ==
    (Classified /\ in_name = Name_Precorrin4 /\ in_status = "OK") =>
        /\ tag = "UNCLEAR"
        /\ ~(RE_C_MT(in_name) \/ RE_C_PAREN(in_name) \/ RE_CYTOSINE_5(in_name))
        /\ RE_MT_WORD(in_name)

\* "Precorrin-4 C11-methyltransferase" has been classified with status OK
C5_Witness == Classified /\ in_name = Name_Precorrin4 /\ in_status = "OK"

\* C6: with status OK, a name containing "s-adenosyl" and no
\* S-methyltransferase token is never S_MT, even with the methyltransferase
\* word and a sulfur hint; the quoted SAM-dependent name is UNCLEAR or OTHER.
C6_SAdenosylGuard ==
    (Classified /\ in_status = "OK") =>
        /\ (HasSAdenosyl(in_name) /\ ~RE_S_MT(in_name)) => tag # "S_MT"
        /\ in_name = Name_SAdenosyl => tag \in {"UNCLEAR", "OTHER"}

\* a name with "s-adenosyl", the methyltransferase word and a sulfur hint
\* was classified with status OK
C6_Witness ==
    /\ Classified /\ in_status = "OK"
    /\ HasSAdenosyl(in_name) /\ ~RE_S_MT(in_name)
    /\ RE_MT_WORD(in_name) /\ RE_S_HINT(in_name)
    /\ tag = "UNCLEAR"

\* C7: for every name and every status in {OK, TRANSFERRED, DELETED}
\* classify returns one tag, and it is one of the eight classifier tags.
C7_TotalEightTags ==
    Classified => (in_status \in Statuses /\ tag \in ClassifierTags)

\* the catch-all was reached: a name with no methyltransferase word got OTHER
C7_Witness ==
    /\ Classified /\ in_status = "OK" /\ tag = "OTHER"
    /\ ~RE_MT_WORD(in_name) /\ ~RE_CO_MT(in_name)

-----------------------------------------------------------------------------
(* EC_REGEX = \b\d+\.\d+\.\d+\.(?:\d+|-)\b  (the same in three scripts) *)

\* A pattern without the two word boundaries.
EcMatchEnd_NoBoundary(s, i) ==
    LET a == DigitsEnd(s, i)
        b == DigitsEnd(s, a + 2)
        c == DigitsEnd(s, b + 2)
        d == DigitsEnd(s, c + 2)
    IN  IF a < i \/ ~LitAt(s, <<".">>, a + 1) THEN 0
        ELSE IF b < a + 2 \/ ~LitAt(s, <<".">>, b + 1) THEN 0
        ELSE IF c < b + 2 \/ ~LitAt(s, <<".">>, c + 1) THEN 0
        ELSE IF d >= c + 2 THEN d
        ELSE IF LitAt(s, <<"-">>, c + 2) THEN c + 2
        ELSE 0

\* The end of the match of EC_REGEX that starts at position i of s, or 0.
\* a, b, c, d are the ends of the four greedy digit runs; a shorter run is
\* never followed by "." or by a word boundary, so backtracking finds nothing.
EcMatchEnd(s, i) ==
    LET a == DigitsEnd(s, i)
        b == DigitsEnd(s, a + 2)
        c == DigitsEnd(s, b + 2)
        d == DigitsEnd(s, c + 2)
    IN  IF ~BoundaryAt(s, i) THEN 0
        ELSE IF a < i \/ ~LitAt(s, <<".">>, a + 1) THEN 0
        ELSE IF b < a + 2 \/ ~LitAt(s, <<".">>, b + 1) THEN 0
        ELSE IF c < b + 2 \/ ~LitAt(s, <<".">>, c + 1) THEN 0
        ELSE IF d >= c + 2 THEN (IF BoundaryAt(s, d + 1) THEN d ELSE 0)
        ELSE IF LitAt(s, <<"-">>, c + 2) /\ BoundaryAt(s, c + 3) THEN c + 2
        ELSE 0

\* EC_REGEX.findall(s) from position i on: leftmost, non-overlapping matches
RECURSIVE FindAllFrom(_, _)
FindAllFrom(s, i) ==
    IF i > Len(s) THEN <<>>
    ELSE LET e == EcMatchEnd(s, i)
         IN  IF e > 0 THEN <<SubSeq(s, i, e)>> \o FindAllFrom(s, e + 1)
             ELSE FindAllFrom(s, i + 1)

\* EC_REGEX.findall(s)
EcFindAll(s) == FindAllFrom(s, 1)

\* EC_REGEX.fullmatch(s) is not None
EcFullMatch(s) == Len(s) > 0 /\ EcMatchEnd(s, 1) = Len(s)

-----------------------------------------------------------------------------
(* MT_split_by_ec.py: extract_ec_list *)

\* the characters of the model in code-point order
CodePointOrder ==
    <<TAB, " ", "#", "'", "(", ")", ",", "-", ".">>
    \o <<"0", "1", "2", "3", "4", "5", "6", "7", "8", "9", ":", ";", "=">>
    \o UpperLetters \o <<"_">> \o LowerLetters \o <<"|", PRIME>>

CodePoint(c) == CHOOSE i \in 1..Len(CodePointOrder) : CodePointOrder[i] = c

\* a < b for Python strings
RECURSIVE StrLess(_, _)
StrLess(a, b) ==
    IF b = <<>> THEN FALSE
    ELSE IF a = <<>> THEN TRUE
    ELSE IF Head(a) = Head(b) THEN StrLess(Tail(a), Tail(b))
    ELSE CodePoint(Head(a)) < CodePoint(Head(b))

\* sorted(S) for a set of strings
RECURSIVE SortedStrings(_)
SortedStrings(S) ==
    IF S = {} THEN <<>>
    ELSE LET m == CHOOSE x \in S : \A y \in S \ {x} : StrLess(x, y)
         IN  <<m>> \o SortedStrings(S \ {m})

\* a value that is not a str (a missing cell)
NaN == <<"<NaN>">>

\* extract_ec_list
extract_ec_list(s) ==
    IF s = NaN THEN <<>>
    ELSE SortedStrings(Range(EcFindAll(s)))

-----------------------------------------------------------------------------
(* Inputs of the extraction: an EC between a prefix and a suffix, each made *)
(* of at most MaxAffix fragments and holding no match of EC_REGEX.          *)

Frag_wildEC ==
    <<"1", ".", "1", ".", "1", ".", "-">>

\* strings of the canonical form \d+\.\d+\.\d+\.(\d+|-)
ValidECs == {EC_2_1_1_1, EC_2_1_1_63, EC_2_1_1_wild}

PrefixFragments == {<<"x">>, <<"1">>, <<".">>, <<"-">>, <<" ">>, Frag_wildEC}
SuffixFragments == {<<"x">>, <<"1">>, <<".">>, <<"-">>, <<" ">>}

Prefixes ==
    {q \in {Concat(fs) : fs \in SeqsUpTo(PrefixFragments, MaxAffix)} :
        EcFindAll(q) = <<>>}
Suffixes ==
    {q \in {Concat(fs) : fs \in SeqsUpTo(SuffixFragments, MaxAffix)} :
        EcFindAll(q) = <<>>}

InitExtract ==
    /\ mode = "extract"
    /\ ex_p \in Prefixes
    /\ ex_e \in ValidECs
    /\ ex_s \in Suffixes
    /\ text \in {ex_p \o ex_e \o ex_s, NaN}
    /\ found = Pending
    /\ ResolverIdle /\ DictIdle /\ ClassifierIdle /\ ParseIdle /\ RunIdle /\ TypeIdle

\* df["EC_list"] = ec_source.map(extract_ec_list), for one field
ExtractEcList ==
    /\ mode = "extract"
    /\ found = Pending
    /\ found' = extract_ec_list(text)
    /\ UNCHANGED <<typeVars, runVars, mode, ex_p, ex_e, ex_s, text, ec_to_group, resolverVars,
                   classifierVars, parseVars>>

NextExtract == ExtractEcList

SpecExtract == InitExtract /\ [][NextExtract]_vars

-----------------------------------------------------------------------------
(* Claims about the extraction *)

Extracted == mode = "extract" /\ found # Pending /\ text # NaN

\* C9: for every valid EC e and every prefix and suffix holding no
\* match of the EC pattern, extraction of prefix + e + suffix returns [e],
\* also with letters, digits, dots or hyphens directly against the EC.
C9_AlwaysSingleton == Extracted => found = <<ex_e>>

Last(q) == q[Len(q)]
PrefixDelimits == ex_p = <<>> \/ Last(ex_p) \notin (WordChars \cup {".", "-"})
SuffixDelimits == ex_s = <<>> \/ Head(ex_s) \notin WordChars
WordFollows == ex_s # <<>> /\ Head(ex_s) \in WordChars
NumericEC == Last(ex_e) \in Digits

\* What the extraction does return, with a prefix that is empty or ends with
\* a character other than a word character, "." or "-": an EC with four
\* numeric components followed by nothing or by a non-word character is
\* returned as [e]; the wildcard form d.d.d.- is returned as [e] exactly
\* when a word character follows it directly, and otherwise nothing is.
Extract_DelimitedEC ==
    (Extracted /\ PrefixDelimits) =>
        /\ (NumericEC /\ SuffixDelimits) => found = <<ex_e>>
        /\ (~NumericEC /\ WordFollows) => found = <<ex_e>>
        /\ (~NumericEC /\ ~WordFollows) => found = <<>>

\* a numeric EC between a space-ended prefix and a hyphen-started suffix was
\* extracted
Extract_Witness ==
    /\ Extracted /\ NumericEC
    /\ ex_p # <<>> /\ Last(ex_p) = " "
    /\ ex_s # <<>> /\ Head(ex_s) = "-"
    /\ found = <<ex_e>>

\* the EC 2.1.1.- standing alone was handed to the extraction, which
\* returned the empty list
Extract_WildcardLost ==
    /\ Extracted /\ ex_p = <<>> /\ ex_s = <<>>
    /\ ex_e = EC_2_1_1_wild /\ found = <<>>

-----------------------------------------------------------------------------
(* String helpers of the reference parsers *)

\* the whitespace str.strip() removes and \s matches
Whitespace == {" ", TAB}

RECURSIVE LStrip(_)
LStrip(s) ==
    IF s # <<>> /\ Head(s) \in Whitespace THEN LStrip(Tail(s)) ELSE s

RECURSIVE RStrip(_)
RStrip(s) ==
    IF s # <<>> /\ s[Len(s)] \in Whitespace
    THEN RStrip(SubSeq(s, 1, Len(s) - 1))
    ELSE s

\* str.strip()
Strip(s) == RStrip(LStrip(s))

\* s.startswith(prefix), for a non-empty prefix
StartsWith(s, prefix) == LitAt(s, prefix, 1)

\* s.split("\t")[0]
RECURSIVE FirstField(_)
FirstField(s) ==
    IF s = <<>> \/ Head(s) = TAB THEN <<>>
    ELSE <<Head(s)>> \o FirstField(Tail(s))

\* the end of the run of characters of class cls that starts at i (i-1 if none)
RECURSIVE RunEnd(_, _, _)
RunEnd(s, i, cls) ==
    IF i <= Len(s) /\ s[i] \in cls THEN RunEnd(s, i + 1, cls) ELSE i - 1

\* [A-Za-z0-9_]
HeaderClass == Range(UpperLetters) \cup Range(LowerLetters) \cup Digits \cup {"_"}

\* Last-writer-wins assignment, ec_to_group[ec] = group.
SetDefault_Overwrite(d, k, v) ==
    [x \in DOMAIN d \cup {k} |-> IF x = k THEN v ELSE d[x]]

\* dict.setdefault(k, v): an existing key keeps its value
SetDefault(d, k, v) ==
    IF k \in DOMAIN d THEN d
    ELSE [x \in DOMAIN d \cup {k} |-> IF x = k THEN v ELSE d[x]]

Column_ec_tab == <<"e", "c", TAB>>

-----------------------------------------------------------------------------
(* assign_groups_to_ec_summary.py: parse_mt_grouped *)

\* re.match(r"#\s*([A-Za-z0-9_]+)\b", line): group 1, or None.  The greedy
\* run ends before a character outside the class; a shorter run ends
\* between two word characters, where \b never holds.
HeaderGroupMt(line) ==
    LET k == RunEnd(line, 2, Whitespace) + 1
        r == RunEnd(line, k, HeaderClass)
    IN  IF r >= k /\ BoundaryAt(line, r + 1) THEN SubSeq(line, k, r) ELSE None

\* one iteration of the loop over the lines; st = [d, cg]
MtGroupedLine(st, raw) ==
    LET line == Strip(raw)
        ec == Strip(FirstField(line))
    IN  IF line = <<>> THEN st
        ELSE IF Head(line) = "#" THEN [st EXCEPT !.cg = HeaderGroupMt(line)]
        ELSE IF StartsWith(Lower(line), Column_ec_tab) THEN st
        ELSE IF st.cg = None THEN st
        ELSE IF EcFullMatch(ec) THEN [st EXCEPT !.d = SetDefault(st.d, ec, st.cg)]
        ELSE st

RECURSIVE MtGroupedFrom(_, _)
MtGroupedFrom(st, ls) ==
    IF ls = <<>> THEN st ELSE MtGroupedFrom(MtGroupedLine(st, Head(ls)), Tail(ls))

\* parse_mt_grouped
parse_mt_grouped(ls) == MtGroupedFrom([d |-> <<>>, cg |-> None], ls).d

-----------------------------------------------------------------------------
(* split_mt2_by_group.py: parse_grouped_sectioned, parse_grouped_table *)

\* re.match(r"#\s*([A-Za-z0-9_-]+)", line): group 1, or None
HeaderGroupSectioned(line) ==
    LET k == RunEnd(line, 2, Whitespace) + 1
        r == RunEnd(line, k, HeaderClass \cup {"-"})
    IN  IF r >= k THEN SubSeq(line, k, r) ELSE None

\* one iteration of the loop over the lines; st = [d, cg]
SectionedLine(st, raw) ==
    LET line == Strip(raw)
        ec == Strip(FirstField(line))
    IN  IF line = <<>> THEN st
        ELSE IF Head(line) = "#" THEN [st EXCEPT !.cg = HeaderGroupSectioned(line)]
        ELSE IF StartsWith(Lower(line), Column_ec_tab) THEN st
        ELSE IF st.cg = None \/ st.cg = <<>> THEN st
        ELSE IF EcFullMatch(ec) THEN [st EXCEPT !.d = SetDefault(st.d, ec, st.cg)]
        ELSE st

RECURSIVE SectionedFrom(_, _)
SectionedFrom(st, ls) ==
    IF ls = <<>> THEN st ELSE SectionedFrom(SectionedLine(st, Head(ls)), Tail(ls))

\* parse_grouped_sectioned
parse_grouped_sectioned(ls) == SectionedFrom([d |-> <<>>, cg |-> None], ls).d

Col_ec ==
    <<"e", "c">>
Col_ec_number ==
    <<"e", "c", "_", "n", "u", "m", "b", "e", "r">>
Col_ec_space_number ==
    <<"e", "c", " ", "n", "u", "m", "b", "e", "r">>
Col_group ==
    <<"g", "r", "o", "u", "p">>
Col_mt_group ==
    <<"m", "t", "_", "g", "r", "o", "u", "p">>
Col_mt_space_group ==
    <<"m", "t", " ", "g", "r", "o", "u", "p">>

\* str(cell): a missing cell prints as "nan"
CellStr(c) == IF c = NaN THEN <<"n", "a", "n">> ELSE c

\* the positions of the columns whose stripped, lowercased name is in exact,
\* or else of the columns whose name contains part; in column order
ColumnCandidates(columns, exact, part) ==
    LET key(c) == Strip(Lower(c))
        hits == {i \in 1..Len(columns) : key(columns[i]) \in exact}
    IN  IF hits # {} THEN hits
        ELSE {i \in 1..Len(columns) : SearchLit(key(columns[i]), part)}

EcColumns(columns) ==
    ColumnCandidates(columns, {Col_ec, Col_ec_number, Col_ec_space_number}, Col_ec)
GroupColumns(columns) ==
    ColumnCandidates(columns, {Col_group, Col_mt_group, Col_mt_space_group}, Col_group)

Min(S) == CHOOSE x \in S : \A y \in S : x <= y

\* one iteration of the loop over the rows
TableRow(d, row, ec_col, group_col) ==
    LET ec == Strip(CellStr(row[ec_col]))
        group == Strip(CellStr(row[group_col]))
    IN  IF EcFullMatch(ec) /\ group # <<>> THEN SetDefault(d, ec, group) ELSE d

RECURSIVE TableFrom(_, _, _, _)
TableFrom(d, rows, ec_col, group_col) ==
    IF rows = <<>> THEN d
    ELSE TableFrom(TableRow(d, Head(rows), ec_col, group_col), Tail(rows),
                   ec_col, group_col)

\* the exceptions that end a run
RuntimeError == "RuntimeError"
EmptyDataError == "EmptyDataError"
KeyError == "KeyError"

\* parse_grouped_table, on the table t read by pd.read_csv: the exception
\* raised (or None) and the dictionary returned
parse_grouped_table(t) ==
    IF EcColumns(t.columns) = {} \/ GroupColumns(t.columns) = {}
    THEN [error |-> RuntimeError, d |-> <<>>]
    ELSE [error |-> None,
          d |-> TableFrom(<<>>, t.rows, Min(EcColumns(t.columns)),
                          Min(GroupColumns(t.columns)))]

-----------------------------------------------------------------------------
(* Inputs of the reference parsers *)

RefLine_O_MT ==
    <<"#", " ", "O", "_", "M", "T", " ", "(", "2", ")">>
RefLine_N_MT ==
    <<"#", " ", "N", "_", "M", "T", " ", "(", "1", ")">>
RefLine_NoName ==
    <<"#", " ", "(", "0", ")">>
RefLine_Columns ==
    <<"e", "c", TAB, "n", "a", "m", "e", TAB, "s", "t", "a", "t", "u", "s">>
RefLine_EC1 ==
    <<"2", ".", "1", ".", "1", ".", "1", TAB, "x", TAB, "O", "K">>
RefLine_EC63 ==
    <<" ", "2", ".", "1", ".", "1", ".", "6", "3", " ", TAB, "y">>

RefLines ==
    {RefLine_O_MT, RefLine_N_MT, RefLine_NoName, RefLine_Columns,
     RefLine_EC1, RefLine_EC63}

RefFiles == SeqsUpTo(RefLines, MaxLines)

Header_EC_number ==
    <<"E", "C", " ", "n", "u", "m", "b", "e", "r">>
Header_MT_group ==
    <<"M", "T", "_", "g", "r", "o", "u", "p">>
Header_Record ==
    <<"R", "e", "c", "o", "r", "d">>
Header_Subgroup ==
    <<"S", "u", "b", "g", "r", "o", "u", "p">>

\* column layouts in which parse_grouped_table finds both columns
TableLayouts ==
    {<<Col_ec, Col_group>>, <<Header_EC_number, Header_MT_group>>,
     <<Header_Record, Header_Subgroup>>}

\* the cells of a row, one per column
TableRowValues ==
    {<<e, g>> : e \in {EC_2_1_1_1, NaN},
                g \in {Group_O_MT, Group_N_MT, <<" ">>}}

RefTables ==
    {[columns |-> c, rows |-> r] :
        c \in TableLayouts, r \in SeqsUpTo(TableRowValues, MaxRows)}

-----------------------------------------------------------------------------
(* Specification of the reference parsers: one parser consumes its input   *)
(* line by line (row by row).                                              *)

InitParse ==
    /\ mode = "parse"
    /\ parser \in {"parse_mt_grouped", "parse_grouped_sectioned", "parse_grouped_table"}
    /\ IF parser = "parse_grouped_table"
       THEN lines = <<>> /\ df \in RefTables
       ELSE lines \in RefFiles /\ df = <<>>
    /\ pos = 1
    /\ current_group = None
    /\ ec_to_group = <<>>
    /\ ResolverIdle /\ ClassifierIdle /\ ExtractIdle /\ RunIdle /\ TypeIdle

\* assign_groups_to_ec_summary.py: the body of the loop of parse_mt_grouped
ParseMtGroupedLine ==
    /\ mode = "parse" /\ parser = "parse_mt_grouped"
    /\ pos <= Len(lines)
    /\ LET st == MtGroupedLine([d |-> ec_to_group, cg |-> current_group], lines[pos])
       IN  ec_to_group' = st.d /\ current_group' = st.cg
    /\ pos' = pos + 1
    /\ UNCHANGED <<typeVars, runVars, mode, parser, lines, df, resolverVars, classifierVars, extractVars>>

\* split_mt2_by_group.py: the body of the loop of parse_grouped_sectioned
ParseSectionedLine ==
    /\ mode = "parse" /\ parser = "parse_grouped_sectioned"
    /\ pos <= Len(lines)
    /\ LET st == SectionedLine([d |-> ec_to_group, cg |-> current_group], lines[pos])
       IN  ec_to_group' = st.d /\ current_group' = st.cg
    /\ pos' = pos + 1
    /\ UNCHANGED <<typeVars, runVars, mode, parser, lines, df, resolverVars, classifierVars, extractVars>>

\* split_mt2_by_group.py: the body of the loop of parse_grouped_table
ParseTableRow ==
    /\ mode = "parse" /\ parser = "parse_grouped_table"
    /\ pos <= Len(df.rows)
    /\ ec_to_group' = TableRow(ec_to_group, df.rows[pos],
                               Min(EcColumns(df.columns)), Min(GroupColumns(df.columns)))
    /\ pos' = pos + 1
    /\ UNCHANGED <<typeVars, runVars, mode, parser, lines, df, current_group, resolverVars,
                   classifierVars, extractVars>>

NextParse == ParseMtGroupedLine \/ ParseSectionedLine \/ ParseTableRow

SpecParse == InitParse /\ [][NextParse]_vars

-----------------------------------------------------------------------------
(* Claims about the reference parsers *)

IsHeaderLine(l) == Strip(l) # <<>> /\ Head(Strip(l)) = "#"

\* the group a header line names for the parser at work
HeaderName(l) ==
    IF parser = "parse_mt_grouped" THEN HeaderGroupMt(Strip(l))
    ELSE HeaderGroupSectioned(Strip(l))

Max(S) == CHOOSE x \in S : \A y \in S : x >= y

\* the group of the section line i stands in: that of the last header before it
SectionGroup(i) ==
    LET hs == {j \in 1..(i - 1) : IsHeaderLine(lines[j])}
    IN  IF hs = {} THEN None ELSE HeaderName(lines[Max(hs)])

\* the EC and the group of input item i, when item i is an EC row under a
\* named group (a line of a section, or a table row with a group)
ItemEc(i) ==
    IF parser = "parse_grouped_table"
    THEN Strip(CellStr(df.rows[i][Min(EcColumns(df.columns))]))
    ELSE Strip(FirstField(Strip(lines[i])))
ItemGroup(i) ==
    IF parser = "parse_grouped_table"
    THEN Strip(CellStr(df.rows[i][Min(GroupColumns(df.columns))]))
    ELSE SectionGroup(i)
IsOccurrence(i) ==
    /\ EcFullMatch(ItemEc(i))
    /\ ItemGroup(i) # None /\ ItemGroup(i) # <<>>
    /\ parser # "parse_grouped_table" => ~IsHeaderLine(lines[i])

Consumed == {i \in 1..(pos - 1) : IsOccurrence(i)}

\* the dictionary maps every EC met so far to the group of its first occurrence
C8_FirstOccurrence ==
    mode = "parse" =>
        /\ DOMAIN ec_to_group = {ItemEc(i) : i \in Consumed}
        /\ \A i \in Consumed :
              (\A j \in Consumed : ItemEc(j) = ItemEc(i) => i <= j)
                  => ec_to_group[ItemEc(i)] = ItemGroup(i)

\* a step of the parse leaves every entry of the dictionary as it is
C8_KeepsGroup ==
    \A e \in DOMAIN ec_to_group :
        e \in DOMAIN ec_to_group' /\ ec_to_group'[e] = ec_to_group[e]

\* C8: while a reference is parsed, an EC entered into the dictionary keeps
\* its group for the rest of the parse, and the dictionary maps each EC to
\* the group of its first occurrence in file order (re-inserting a key is a
\* no-op), in parse_mt_grouped, parse_grouped_sectioned, parse_grouped_table.
C8_FirstWins == [](C8_FirstOccurrence) /\ [][C8_KeepsGroup]_vars

\* the same EC was read under two different headers (or on two rows with
\* different groups) and the parse is over
C8_Witness ==
    /\ mode = "parse"
    /\ \E i, j \in Consumed :
          i < j /\ ItemEc(i) = ItemEc(j) /\ ItemGroup(i) # ItemGroup(j)
    /\ pos = (IF parser = "parse_grouped_table" THEN Len(df.rows) ELSE Len(lines)) + 1

-----------------------------------------------------------------------------
(* Tables: pd.read_csv(path, sep="\t", dtype=str) and the column operations *)
(* of the three main functions.  A table is [columns, rows]; a row has one  *)
(* cell per column; a missing cell is NaN.                                  *)

\* column names of the data tables
Header_Catalytic ==
    <<"C", "a", "t", "a", "l", "y", "t", "i", "c", " ", "a", "c", "t", "i",
      "v", "i", "t", "y">>
Header_Entry ==
    <<"E", "n", "t", "r", "y">>
Header_EC_key ==
    <<"E", "C", "_", "k", "e", "y">>
Header_rows ==
    <<"r", "o", "w", "s">>

\* line.split("\t")
RECURSIVE SplitTab(_)
SplitTab(s) ==
    LET f == FirstField(s)
    IN  IF Len(f) = Len(s) THEN <<f>>
        ELSE <<f>> \o SplitTab(SubSeq(s, Len(f) + 2, Len(s)))

\* pd.read_csv on a file whose rows have at most as many fields as the
\* header line: an empty file raises EmptyDataError, the first line names the
\* columns, an empty or absent field is NaN
read_csv(ls) ==
    IF ls = <<>> THEN [error |-> EmptyDataError, columns |-> <<>>, rows |-> <<>>]
    ELSE LET columns == SplitTab(ls[1])
             cell(fs, j) == IF j <= Len(fs) /\ fs[j] # <<>> THEN fs[j] ELSE NaN
         IN  [error |-> None,
              columns |-> columns,
              rows |-> [i \in 1..(Len(ls) - 1) |->
                          [j \in 1..Len(columns) |-> cell(SplitTab(ls[i + 1]), j)]]]

\* name in df.columns
HasColumn(t, name) == \E i \in 1..Len(t.columns) : t.columns[i] = name

ColumnIndex(t, name) == Min({i \in 1..Len(t.columns) : t.columns[i] = name})

\* df[name]
Column(t, name) == [i \in 1..Len(t.rows) |-> t.rows[i][ColumnIndex(t, name)]]

\* df[name] = values
SetColumn(t, name, values) ==
    IF HasColumn(t, name)
    THEN [t EXCEPT !.rows = [i \in 1..Len(t.rows) |->
                               [t.rows[i] EXCEPT ![ColumnIndex(t, name)] = values[i]]]]
    ELSE [columns |-> Append(t.columns, name),
          rows |-> [i \in 1..Len(t.rows) |-> Append(t.rows[i], values[i])]]

\* .fillna("").astype(str) on one cell
FillNa(c) == IF c = NaN THEN <<>> ELSE c

\* df[df[name] == value]
RowsWhere(t, name, value) ==
    [columns |-> t.columns,
     rows |-> SelectSeq(t.rows, LAMBDA r : r[ColumnIndex(t, name)] = value)]

\* to_csv(file): the files written so far, with file holding content
WriteFile(files, file, content) ==
    [f \in DOMAIN files \cup {file} |-> IF f = file THEN content ELSE files[f]]

-----------------------------------------------------------------------------
(* split_mt2_by_group.py: load_ec_to_group, sanitize_filename, main *)

\* load_ec_to_group: the exception raised (or None) and the dictionary
load_ec_to_group(ls) ==
    LET sectioned == parse_grouped_sectioned(ls)
        t == read_csv(ls)
    IN  IF sectioned # <<>> THEN [error |-> None, d |-> sectioned]
        ELSE IF t.error # None THEN [error |-> t.error, d |-> <<>>]
        ELSE parse_grouped_table(t)

\* [A-Za-z0-9._-]
SafeChars ==
    Range(UpperLetters) \cup Range(LowerLetters) \cup Digits \cup {".", "_", "-"}

\* re.sub(r"[^A-Za-z0-9._-]+", "_", s); MT_split_by_ec.py defines the same
RECURSIVE sanitize_filename(_)
sanitize_filename(s) ==
    IF s = <<>> THEN <<>>
    ELSE IF Head(s) \in SafeChars THEN <<Head(s)>> \o sanitize_filename(Tail(s))
    ELSE LET rest == sanitize_filename(Tail(s))
         IN  IF Len(s) > 1 /\ s[2] \notin SafeChars THEN rest ELSE <<"_">> \o rest

\* key_groups + [g for g in special if g not in key_groups]
AllGroups(d) ==
    LET key_groups == SortedStrings({d[e] : e \in DOMAIN d})
    IN  key_groups \o SelectSeq(<<Tag_MULTIPLE, Tag_MIXED, Tag_UNKNOWN, Tag_NO_EC>>,
                                LAMBDA g : g \notin Range(key_groups))

\* df["MT_group"].value_counts().reset_index(name="rows"), as a set of rows
GroupCounts(t) ==
    LET g == Column(t, Header_MT_group)
    IN  {[MT_group |-> k, rows |-> Cardinality({i \in 1..Len(g) : g[i] = k})] :
            k \in Range(g)}

-----------------------------------------------------------------------------
(* assign_groups_to_ec_summary.py: the totals of main *)

DigitOrder == <<"0", "1", "2", "3", "4", "5", "6", "7", "8", "9">>

RECURSIVE DecimalValue(_)
DecimalValue(s) ==
    IF s = <<>> THEN 0
    ELSE 10 * DecimalValue(SubSeq(s, 1, Len(s) - 1))
         + (CHOOSE k \in 0..9 : DigitOrder[k + 1] = s[Len(s)])

\* pd.to_numeric(cell, errors="coerce"), .fillna(0).astype(int), for a cell
\* that is a run of digits, is missing, or is no number
CountNum(c) ==
    IF c # NaN /\ c # <<>> /\ \A i \in 1..Len(c) : c[i] \in Digits
    THEN DecimalValue(c) ELSE 0

RECURSIVE SumOver(_, _)
SumOver(S, f) ==
    IF S = {} THEN 0
    ELSE LET i == CHOOSE x \in S : TRUE IN f[i] + SumOver(S \ {i}, f)

\* df.groupby("MT_group").agg(...), as a set of rows
GroupTotals(t, ec_col, count_col) ==
    LET g == Column(t, Header_MT_group)
        members(k) == {i \in 1..Len(g) : g[i] = k}
        distinct(k) == Cardinality({Column(t, ec_col)[i] : i \in members(k)} \ {NaN})
    IN  IF HasColumn(t, count_col)
        THEN {[MT_group |-> k,
               total_rows_in_summary |-> Cardinality(members(k)),
               total_count |-> SumOver(members(k),
                                       [i \in 1..Len(g) |->
                                          CountNum(Column(t, count_col)[i])]),
               distinct_ec_keys |-> distinct(k)] : k \in Range(g)}
        ELSE {[MT_group |-> k,
               total_rows_in_summary |-> Cardinality(members(k)),
               distinct_ec_keys |-> distinct(k)] : k \in Range(g)}

-----------------------------------------------------------------------------
(* MT_split_by_ec.py: the grouping key of main *)

\* the column EC numbers are extracted from: --ec-col, else --cat-col, else
\* a series of empty strings
EcSource(t, a) ==
    IF HasColumn(t, a.ec_col)
    THEN [i \in 1..Len(t.rows) |-> FillNa(Column(t, a.ec_col)[i])]
    ELSE IF HasColumn(t, a.cat_col)
    THEN [i \in 1..Len(t.rows) |-> FillNa(Column(t, a.cat_col)[i])]
    ELSE [i \in 1..Len(t.rows) |-> <<>>]

\* "|".join(xs)
RECURSIVE JoinBar(_)
JoinBar(xs) ==
    IF xs = <<>> THEN <<>>
    ELSE IF Len(xs) = 1 THEN xs[1]
    ELSE xs[1] \o <<"|">> \o JoinBar(Tail(xs))

\* df_ex.explode("EC_key") and .fillna("NO_EC"): one row per EC of the list,
\* and one row with NO_EC for an empty list
RECURSIVE ExplodeRows(_, _, _)
ExplodeRows(t, ec_list, i) ==
    IF i > Len(t.rows) THEN <<>>
    ELSE LET keyed(k) == SetColumn([columns |-> t.columns, rows |-> <<t.rows[i]>>],
                                   Header_EC_key, <<k>>).rows[1]
             here == IF ec_list[i] = <<>> THEN <<keyed(Tag_NO_EC)>>
                     ELSE [j \in 1..Len(ec_list[i]) |-> keyed(ec_list[i][j])]
         IN  here \o ExplodeRows(t, ec_list, i + 1)

\* the frame that main groups by EC_key
KeyedFrame(t, a) ==
    LET ec_list == [i \in 1..Len(t.rows) |-> extract_ec_list(EcSource(t, a)[i])]
    IN  IF a.mode = "first"
        THEN SetColumn(t, Header_EC_key,
                       [i \in 1..Len(t.rows) |->
                          IF ec_list[i] # <<>> THEN ec_list[i][1] ELSE Tag_NO_EC])
        ELSE IF a.mode = "joined"
        THEN SetColumn(t, Header_EC_key,
                       [i \in 1..Len(t.rows) |->
                          IF ec_list[i] # <<>> THEN JoinBar(ec_list[i]) ELSE Tag_NO_EC])
        ELSE [columns |-> SetColumn(t, Header_EC_key, [i \in 1..Len(t.rows) |-> <<>>]).columns,
              rows |-> ExplodeRows(t, ec_list, 1)]

\* the keys of df.groupby("EC_key"), in the order of the iteration
GroupKeys(t) == SortedStrings(Range(Column(t, Header_EC_key)))

Stem ==
    <<"M", "T", "2">>
Suffix ==
    <<".", "t", "s", "v">>
Part_with_groups ==
    <<"_", "w", "i", "t", "h", "_", "g", "r", "o", "u", "p", "s", ".", "t",
      "s", "v">>
Part_group_totals ==
    <<"_", "g", "r", "o", "u", "p", "_", "t", "o", "t", "a", "l", "s", ".",
      "t", "s", "v">>
Part_group_counts ==
    <<"_", "g", "r", "o", "u", "p", "_", "c", "o", "u", "n", "t", "s", ".",
      "t", "s", "v">>
Part_EC ==
    <<"_", "E", "C", "_">>
Part_EC_summary ==
    <<"_", "E", "C", "_", "s", "u", "m", "m", "a", "r", "y", ".", "t", "s",
      "v">>

\* out_dir / f"{in_path.stem}_EC_{safe}{in_path.suffix}"
KeyFileName(ec_key) == Stem \o Part_EC \o sanitize_filename(ec_key) \o Suffix

\* summary_rows, sorted by rows (descending) and then EC_key
SummaryRows(t) ==
    LET keys == GroupKeys(t)
        rows == [i \in 1..Len(keys) |->
                   [EC_key |-> keys[i],
                    rows |-> Len(RowsWhere(t, Header_EC_key, keys[i]).rows),
                    file |-> KeyFileName(keys[i])]]
    IN  SortSeq(rows, LAMBDA x, y :
                   x.rows > y.rows \/ (x.rows = y.rows /\ StrLess(x.EC_key, y.EC_key)))

-----------------------------------------------------------------------------
(* Inputs of the runs *)

Cell_TwoECs ==
    <<"2", ".", "1", ".", "1", ".", "1", "|", "2", ".", "1", ".", "1", ".",
      "6", "3">>
Cell_Prose ==
    <<"E", "C", "=", "2", ".", "1", ".", "1", ".", "6", "3">>
Cell_P1 ==
    <<"P", "1">>
Cell_7 ==
    <<"7">>

RefLine_TableColumns ==
    <<"e", "c", TAB, "g", "r", "o", "u", "p">>
RefLine_TableRow ==
    <<"2", ".", "1", ".", "1", ".", "1", TAB, "O", "_", "M", "T">>

\* reference files: two sections; one section; rows before any header; a
\* plain table; a plain table without rows; an empty file; a lone header
RunRefFiles ==
    {<<RefLine_O_MT, RefLine_EC1, RefLine_N_MT, RefLine_EC63>>,
     <<RefLine_O_MT, RefLine_Columns, RefLine_EC1>>,
     <<RefLine_Columns, RefLine_EC1>>,
     <<RefLine_TableColumns, RefLine_TableRow>>,
     <<RefLine_TableColumns>>,
     <<>>,
     <<RefLine_O_MT>>}

\* the column layouts of the input table
RunLayouts ==
    {<<Header_EC_number, Header_Catalytic>>, <<Header_Catalytic>>,
     <<Header_Entry>>, <<Header_EC_key, Header_rows>>}

\* the cells a column can hold
RunCells(column) ==
    IF column \in {Header_EC_number, Header_EC_key} THEN {EC_2_1_1_1, Cell_TwoECs, NaN}
    ELSE IF column = Header_Catalytic THEN {Cell_Prose, NaN}
    ELSE IF column = Header_rows THEN {Cell_7, NaN}
    ELSE {Cell_P1}

RunRows(columns) ==
    {r \in [1..Len(columns) -> UNION {RunCells(columns[j]) : j \in 1..Len(columns)}] :
        \A j \in 1..Len(columns) : r[j] \in RunCells(columns[j])}

RunTables ==
    UNION {{[columns |-> c, rows |-> r] : r \in SeqsUpTo(RunRows(c), MaxDataRows)} :
              c \in RunLayouts}

Script_assign == "assign_groups_to_ec_summary"
Script_split_mt2 == "split_mt2_by_group"
Script_split_ec == "MT_split_by_ec"

\* the command lines: --ec-col is the default of one of the scripts, --cat-col
\* and --count-col are the defaults
RunArgs(sc) ==
    {[ec_col |-> e, cat_col |-> Header_Catalytic, count_col |-> Header_rows,
      mode |-> m, write_empty |-> w] :
        e \in {Header_EC_number, Header_EC_key},
        m \in (IF sc = Script_split_ec THEN {"first", "explode", "joined"} ELSE {"explode"}),
        w \in (IF sc = Script_split_mt2 THEN BOOLEAN ELSE {FALSE})}

-----------------------------------------------------------------------------
(* Specification of the runs: one run of main of one of the three scripts, *)
(* from the parsed command line to the last file written or the exception. *)

InitRun ==
    /\ mode = "run"
    /\ script \in {Script_assign, Script_split_mt2, Script_split_ec}
    /\ pc = "start"
    /\ args \in RunArgs(script)
    /\ table \in RunTables
    /\ lines \in (IF script = Script_split_ec THEN {<<>>} ELSE RunRefFiles)
    /\ df = <<>>
    /\ ec_to_group = <<>>
    /\ outputs = <<>>
    /\ error = None
    /\ gi = 0
    /\ parser = None /\ pos = 0 /\ current_group = None
    /\ ResolverIdle /\ ClassifierIdle /\ ExtractIdle /\ TypeIdle

\* assign_groups_to_ec_summary.py main: parse_mt_grouped and the test of
\* the dictionary
A_ParseReference ==
    /\ mode = "run" /\ script = Script_assign /\ pc = "start"
    /\ ec_to_group' = parse_mt_grouped(lines)
    /\ IF ec_to_group' = <<>>
       THEN pc' = "aborted" /\ error' = RuntimeError
       ELSE pc' = "read_table" /\ error' = error
    /\ UNCHANGED <<typeVars, mode, script, args, table, outputs, gi, parseVars,
                   resolverVars, classifierVars, extractVars>>

\* assign_groups_to_ec_summary.py main: read_csv, the test of the column,
\* and the MT_group column
A_ReadSummary ==
    /\ mode = "run" /\ script = Script_assign /\ pc = "read_table"
    /\ IF ~HasColumn(table, args.ec_col)
       THEN /\ df' = table
            /\ pc' = "aborted" /\ error' = RuntimeError
       ELSE /\ df' = SetColumn(table, Header_MT_group,
                       [i \in 1..Len(table.rows) |->
                          choose_group_for_ecs(
                              EcFindAll(FillNa(Column(table, args.ec_col)[i])),
                              ec_to_group)])
            /\ pc' = "write_summary" /\ error' = error
    /\ UNCHANGED <<typeVars, mode, script, args, table, outputs, gi, ec_to_group, parser,
                   lines, pos, current_group, resolverVars, classifierVars,
                   extractVars>>

\* assign_groups_to_ec_summary.py main: the annotated summary is written
A_WriteSummary ==
    /\ mode = "run" /\ script = Script_assign /\ pc = "write_summary"
    /\ outputs' = WriteFile(outputs, Stem \o Part_with_groups, df)
    /\ pc' = "write_totals"
    /\ UNCHANGED <<typeVars, mode, script, args, table, error, gi, ec_to_group, parseVars,
                   resolverVars, classifierVars, extractVars>>

\* assign_groups_to_ec_summary.py main: the totals per group are written
A_WriteTotals ==
    /\ mode = "run" /\ script = Script_assign /\ pc = "write_totals"
    /\ outputs' = WriteFile(outputs, Stem \o Part_group_totals,
                            GroupTotals(df, args.ec_col, args.count_col))
    /\ pc' = "done"
    /\ UNCHANGED <<typeVars, mode, script, args, table, error, gi, ec_to_group, parseVars,
                   resolverVars, classifierVars, extractVars>>

\* split_mt2_by_group.py main: load_ec_to_group and the test of the
\* dictionary
B_LoadReference ==
    /\ mode = "run" /\ script = Script_split_mt2 /\ pc = "start"
    /\ LET loaded == load_ec_to_group(lines)
       IN  /\ ec_to_group' = loaded.d
           /\ IF loaded.error # None
              THEN pc' = "aborted" /\ error' = loaded.error
              ELSE IF loaded.d = <<>>
              THEN pc' = "aborted" /\ error' = RuntimeError
              ELSE pc' = "read_table" /\ error' = error
    /\ UNCHANGED <<typeVars, mode, script, args, table, outputs, gi, parseVars,
                   resolverVars, classifierVars, extractVars>>

\* split_mt2_by_group.py main: read_csv, the test of the column, and the
\* MT_group column
B_ReadData ==
    /\ mode = "run" /\ script = Script_split_mt2 /\ pc = "read_table"
    /\ IF ~HasColumn(table, args.ec_col)
       THEN /\ df' = table /\ gi' = gi
            /\ pc' = "aborted" /\ error' = RuntimeError
       ELSE /\ df' = SetColumn(table, Header_MT_group,
                       [i \in 1..Len(table.rows) |->
                          decide_row_group(
                              EcFindAll(FillNa(Column(table, args.ec_col)[i])),
                              ec_to_group)])
            /\ gi' = 1
            /\ pc' = "write_groups" /\ error' = error
    /\ UNCHANGED <<typeVars, mode, script, args, table, outputs, ec_to_group, parser,
                   lines, pos, current_group, resolverVars, classifierVars,
                   extractVars>>

\* split_mt2_by_group.py main: one iteration of the loop over all_groups
B_WriteGroup ==
    /\ mode = "run" /\ script = Script_split_mt2 /\ pc = "write_groups"
    /\ gi <= Len(AllGroups(ec_to_group))
    /\ LET g == AllGroups(ec_to_group)[gi]
           sub == RowsWhere(df, Header_MT_group, g)
       IN  outputs' = IF sub.rows = <<>> /\ ~args.write_empty THEN outputs
                      ELSE WriteFile(outputs,
                                     Stem \o <<"_">> \o sanitize_filename(g) \o Suffix,
                                     sub)
    /\ gi' = gi + 1
    /\ UNCHANGED <<typeVars, mode, script, pc, args, table, error, ec_to_group, parseVars,
                   resolverVars, classifierVars, extractVars>>

\* split_mt2_by_group.py main: the counts per group are written
B_WriteCounts ==
    /\ mode = "run" /\ script = Script_split_mt2 /\ pc = "write_groups"
    /\ gi > Len(AllGroups(ec_to_group))
    /\ outputs' = WriteFile(outputs, Stem \o Part_group_counts, GroupCounts(df))
    /\ pc' = "done"
    /\ UNCHANGED <<typeVars, mode, script, args, table, error, gi, ec_to_group, parseVars,
                   resolverVars, classifierVars, extractVars>>

\* MT_split_by_ec.py main: read_csv, the choice of the source column, the
\* EC lists and the grouping key
C_ReadAndKey ==
    /\ mode = "run" /\ script = Script_split_ec /\ pc = "start"
    /\ df' = KeyedFrame(table, args)
    /\ gi' = 1
    /\ pc' = "write_groups"
    /\ UNCHANGED <<typeVars, mode, script, args, table, outputs, error, ec_to_group,
                   parser, lines, pos, current_group, resolverVars,
                   classifierVars, extractVars>>

\* MT_split_by_ec.py main: one iteration of the loop over the groups
C_WriteKeyFile ==
    /\ mode = "run" /\ script = Script_split_ec /\ pc = "write_groups"
    /\ gi <= Len(GroupKeys(df))
    /\ LET ec_key == GroupKeys(df)[gi]
       IN  outputs' = WriteFile(outputs, KeyFileName(ec_key),
                                RowsWhere(df, Header_EC_key, ec_key))
    /\ gi' = gi + 1
    /\ UNCHANGED <<typeVars, mode, script, pc, args, table, error, ec_to_group, parseVars,
                   resolverVars, classifierVars, extractVars>>

\* MT_split_by_ec.py main: the summary is sorted and written; sort_values
\* raises KeyError on the frame made of an empty summary_rows
C_WriteSummary ==
    /\ mode = "run" /\ script = Script_split_ec /\ pc = "write_groups"
    /\ gi > Len(GroupKeys(df))
    /\ IF GroupKeys(df) = <<>>
       THEN outputs' = outputs /\ pc' = "aborted" /\ error' = KeyError
       ELSE /\ outputs' = WriteFile(outputs, Stem \o Part_EC_summary, SummaryRows(df))
            /\ pc' = "done" /\ error' = error
    /\ UNCHANGED <<typeVars, mode, script, args, table, gi, ec_to_group, parseVars,
                   resolverVars, classifierVars, extractVars>>

NextRun ==
    \/ A_ParseReference \/ A_ReadSummary \/ A_WriteSummary \/ A_WriteTotals
    \/ B_LoadReference \/ B_ReadData \/ B_WriteGroup \/ B_WriteCounts
    \/ C_ReadAndKey \/ C_WriteKeyFile \/ C_WriteSummary

SpecRun == InitRun /\ [][NextRun]_vars

-----------------------------------------------------------------------------
(* Claims about the runs *)

\* the designated EC column (--ec-col) is absent from the input table
ColumnAbsent == ~HasColumn(table, args.ec_col)

\* the reference of the run yields no EC -> group mapping
ReferenceEmpty ==
    \/ script = Script_assign /\ parse_mt_grouped(lines) = <<>>
    \/ script = Script_split_mt2 /\ load_ec_to_group(lines).d = <<>>

FatalCondition == ColumnAbsent \/ ReferenceEmpty

\* C10: in every run of a table-consuming script in which a fatal condition
\* holds (the designated EC column is absent from the input table, or the
\* reference yields no mapping), the run aborts with an error and never
\* completes, no output file of the run is written, and at the moment any run
\* aborts none of its output files has been written.
C10_FatalAborts ==
    mode = "run" =>
        /\ pc = "aborted" => outputs = <<>>
        /\ FatalCondition => pc # "done" /\ outputs = <<>>

\* What the two scripts that read a reference do: with a fatal condition
\* they end in an exception before any output file is written.
Run_ReferenceScriptsAbort ==
    (mode = "run" /\ script # Script_split_ec) =>
        /\ pc = "aborted" => outputs = <<>> /\ error # None
        /\ FatalCondition => pc # "done" /\ outputs = <<>>

\* a run of one of the two scripts has aborted on a missing column after a
\* successful parse of the reference
Run_AbortWitness ==
    /\ mode = "run" /\ script # Script_split_ec
    /\ pc = "aborted" /\ ColumnAbsent /\ ec_to_group # <<>>

\* MT_split_by_ec has completed on a table that has neither the --ec-col
\* nor the --cat-col column, every row being written under NO_EC
Run_SilentDefault ==
    /\ mode = "run" /\ script = Script_split_ec /\ pc = "done"
    /\ ColumnAbsent /\ ~HasColumn(table, args.cat_col)
    /\ table.rows # <<>>
    /\ DOMAIN outputs = {KeyFileName(Tag_NO_EC), Stem \o Part_EC_summary}

-----------------------------------------------------------------------------
(* ec_to_type.py: EC_LINE, ec_sort_key, main *)

Pat_read_more ==
    <<"r", "e", "a", "d", " ", "m", "o", "r", "e">>
Pat_transferred_entry ==
    <<"t", "r", "a", "n", "s", "f", "e", "r", "r", "e", "d", " ", "e", "n",
      "t", "r", "y">>
Pat_deleted_entry ==
    <<"d", "e", "l", "e", "t", "e", "d", " ", "e", "n", "t", "r", "y">>
Line_columns ==
    <<"e", "c", TAB, "n", "a", "m", "e", TAB, "s", "t", "a", "t", "u", "s">>

\* the end of \d+ at position i, or 0 when no digit stands there
ComponentEnd(s, i) == IF DigitsEnd(s, i) >= i THEN DigitsEnd(s, i) ELSE 0

\* the end of \.\d+ at position i, or 0
DotComponentEnd(s, i) ==
    IF i >= 1 /\ i <= Len(s) /\ s[i] = "." THEN ComponentEnd(s, i + 1) ELSE 0

\* EC_LINE.match(line): whether it matched, and groups 1 and 2.  Every
\* component takes all the digits it can, since the rest of the pattern
\* matches any remainder.
EC_LINE(line) ==
    LET k == RunEnd(line, 1, Whitespace) + 1
        c1 == ComponentEnd(line, k)
        c2 == IF c1 = 0 THEN 0 ELSE DotComponentEnd(line, c1 + 1)
        c3 == IF c2 = 0 THEN 0 ELSE DotComponentEnd(line, c2 + 1)
        c4 == IF c3 = 0 THEN 0 ELSE DotComponentEnd(line, c3 + 1)
        w == RunEnd(line, c4 + 1, Whitespace)
        c == IF w + 1 <= Len(line) /\ line[w + 1] = "," THEN w + 1 ELSE w
        n == RunEnd(line, c + 1, Whitespace)
    IN  IF c4 = 0 THEN [matched |-> FALSE, ec |-> <<>>, name |-> <<>>]
        ELSE [matched |-> TRUE, ec |-> SubSeq(line, k, c4),
              name |-> SubSeq(line, n + 1, Len(line))]

EndsWith(s, suffix) ==
    Len(s) >= Len(suffix) /\ SubSeq(s, Len(s) - Len(suffix) + 1, Len(s)) = suffix

\* re.sub(r"\s*Read more\s*$", "", name, flags=re.IGNORECASE), on a name
\* without trailing whitespace
RemoveReadMore(name) ==
    IF EndsWith(Lower(name), Pat_read_more)
    THEN RStrip(SubSeq(name, 1, Len(name) - Len(Pat_read_more)))
    ELSE name

\* name.rstrip(" .;,")
RECURSIVE RStripJunk(_)
RStripJunk(s) ==
    IF s # <<>> /\ s[Len(s)] \in {" ", ".", ";", ","}
    THEN RStripJunk(SubSeq(s, 1, Len(s) - 1)) ELSE s

\* the status main derives from the cleaned name
StatusOf(name) ==
    IF StartsWith(Lower(name), Pat_transferred_entry) THEN "TRANSFERRED"
    ELSE IF StartsWith(Lower(name), Pat_deleted_entry) THEN "DELETED"
    ELSE "OK"

\* one iteration of the loop over the input lines: a blank line or a comment
\* is ignored, a line without EC is skipped, else a record is appended
ParseLine(raw) ==
    LET line == Strip(raw)
        m == EC_LINE(line)
        name == RStripJunk(Strip(RemoveReadMore(Strip(m.name))))
    IN  IF line = <<>> \/ Head(line) = "#" THEN [kind |-> "ignored"]
        ELSE IF ~m.matched THEN [kind |-> "skipped"]
        ELSE [kind |-> "row",
              row |-> [group |-> classify(name, StatusOf(name)), ec |-> Strip(m.ec),
                       name |-> name, status |-> StatusOf(name)]]

\* ec.split(".")
RECURSIVE SplitDot(_)
SplitDot(s) ==
    LET d == CHOOSE i \in 1..(Len(s) + 1) :
                 (i = Len(s) + 1 \/ s[i] = ".") /\ \A j \in 1..(i - 1) : s[j] # "."
    IN  IF d = Len(s) + 1 THEN <<s>>
        ELSE <<SubSeq(s, 1, d - 1)>> \o SplitDot(SubSeq(s, d + 1, Len(s)))

\* A sort key that keeps the components as text.
ec_sort_key_Text(ec) == [i \in 1..Len(ec) |-> CodePoint(ec[i])]

\* ec_sort_key: the integer components (every component of a parsed EC is a
\* run of digits, so int() never raises)
ec_sort_key(ec) ==
    [i \in 1..Len(SplitDot(ec)) |-> DecimalValue(SplitDot(ec)[i])]

\* a < b for lists of integers
RECURSIVE IntListLess(_, _)
IntListLess(a, b) ==
    IF b = <<>> THEN FALSE
    ELSE IF a = <<>> THEN TRUE
    ELSE IF Head(a) = Head(b) THEN IntListLess(Tail(a), Tail(b))
    ELSE Head(a) < Head(b)

\* order = [...], as text and as the tags of classify
GroupOrder ==
    <<"O_MT", "N_MT", "C_MT", "S_MT", "UNCLEAR", "OTHER", "TRANSFERRED", "DELETED">>

OrderIndex(g) == CHOOSE i \in 1..Len(GroupOrder) : GroupOrder[i] = g

\* the key of rows.sort: a < b
RowKeyLess(a, b) ==
    IF OrderIndex(a.group) # OrderIndex(b.group)
    THEN OrderIndex(a.group) < OrderIndex(b.group)
    ELSE IF ec_sort_key(a.ec) # ec_sort_key(b.ec)
    THEN IntListLess(ec_sort_key(a.ec), ec_sort_key(b.ec))
    ELSE StrLess(Lower(a.name), Lower(b.name))

\* list.sort(key=...): stable, rows with equal keys keep their order
RECURSIVE InsertRow(_, _)
InsertRow(sorted, r) ==
    IF sorted = <<>> THEN <<r>>
    ELSE IF RowKeyLess(r, sorted[Len(sorted)])
    THEN Append(InsertRow(SubSeq(sorted, 1, Len(sorted) - 1), r), sorted[Len(sorted)])
    ELSE Append(sorted, r)

RECURSIVE SortRows(_)
SortRows(rs) ==
    IF rs = <<>> THEN <<>>
    ELSE InsertRow(SortRows(SubSeq(rs, 1, Len(rs) - 1)), rs[Len(rs)])

\* str(n) for n >= 0
RECURSIVE DecimalString(_)
DecimalString(n) ==
    IF n < 10 THEN <<DigitOrder[n + 1]>>
    ELSE Append(DecimalString(n \div 10), DigitOrder[(n % 10) + 1])

\* the text of a tag or of a status
TagText(t) ==
    CASE t = "O_MT" -> <<"O", "_", "M", "T">>
      [] t = "N_MT" -> <<"N", "_", "M", "T">>
      [] t = "C_MT" -> <<"C", "_", "M", "T">>
      [] t = "S_MT" -> <<"S", "_", "M", "T">>
      [] t = "UNCLEAR" -> <<"U", "N", "C", "L", "E", "A", "R">>
      [] t = "OTHER" -> <<"O", "T", "H", "E", "R">>
      [] t = "TRANSFERRED" -> <<"T", "R", "A", "N", "S", "F", "E", "R", "R", "E", "D">>
      [] t = "DELETED" -> <<"D", "E", "L", "E", "T", "E", "D">>
      [] t = "OK" -> <<"O", "K">>

\* r["name"].replace("\t", " ").replace("\n", " ").strip()
CleanName(name) ==
    Strip([i \in 1..Len(name) |-> IF name[i] = TAB THEN " " ELSE name[i]])

\* f"{r['ec']}\t{clean_name}\t{r['status']}"
RowLine(r) == r.ec \o <<TAB>> \o CleanName(r.name) \o <<TAB>> \o TagText(r.status)

\* the lines main appends for the block of group g
BlockLines(rs, g) ==
    LET block == SelectSeq(rs, LAMBDA r : r.group = g)
    IN  <<<<"#", " ">> \o TagText(g) \o <<" ", "(">> \o DecimalString(Len(block)) \o <<")">>,
          Line_columns>>
        \o [i \in 1..Len(block) |-> RowLine(block[i])]
        \o << <<>> >>

\* The blocks written from the last group of the order to the first.
RECURSIVE OutLines_Reversed(_, _)
OutLines_Reversed(rs, k) ==
    IF k > Len(GroupOrder) THEN <<>>
    ELSE OutLines_Reversed(rs, k + 1) \o BlockLines(rs, GroupOrder[k])

RECURSIVE OutLines(_, _)
OutLines(rs, k) ==
    IF k > Len(GroupOrder) THEN <<>>
    ELSE BlockLines(rs, GroupOrder[k]) \o OutLines(rs, k + 1)

\* the lines of "\n".join(out_lines).rstrip() + "\n"
RECURSIVE WrittenLines(_)
WrittenLines(ls) ==
    IF ls = <<>> THEN <<>>
    ELSE IF Strip(ls[Len(ls)]) = <<>> THEN WrittenLines(SubSeq(ls, 1, Len(ls) - 1))
    ELSE [ls EXCEPT ![Len(ls)] = RStrip(ls[Len(ls)])]

-----------------------------------------------------------------------------
(* Inputs of ec_to_type.py: files of at most MaxInLines lines *)

In_N9a ==
    <<"2", ".", "1", ".", "1", ".", "9", " ", "a", " ", "N", "-", "m", "e",
      "t", "h", "y", "l", "t", "r", "a", "n", "s", "f", "e", "r", "a", "s",
      "e">>
In_N9B ==
    <<"2", ".", "1", ".", "1", ".", "9", " ", "B", " ", "N", "-", "m", "e",
      "t", "h", "y", "l", "t", "r", "a", "n", "s", "f", "e", "r", "a", "s",
      "e">>
In_N10 ==
    <<"2", ".", "1", ".", "1", ".", "1", "0", ",", " ", "N", "-", "m", "e",
      "t", "h", "y", "l", "t", "r", "a", "n", "s", "f", "e", "r", "a", "s",
      "e", ".">>
In_O10 ==
    <<" ", "2", ".", "1", ".", "1", ".", "1", "0", TAB, "O", "-", "m", "e",
      "t", "h", "y", "l", "t", "r", "a", "n", "s", "f", "e", "r", "a", "s",
      "e", " ", "R", "e", "a", "d", " ", "m", "o", "r", "e">>
In_Deleted ==
    <<"2", ".", "1", ".", "1", ".", "9", " ", "D", "e", "l", "e", "t", "e",
      "d", " ", "e", "n", "t", "r", "y">>
In_NoSpace ==
    <<"2", ".", "1", ".", "1", ".", "6", "3", "m", "e", "t", "h", "y", "l",
      "t", "r", "a", "n", "s", "f", "e", "r", "a", "s", "e">>
In_Comment ==
    <<"#", " ", "c", "o", "m", "m", "e", "n", "t">>
In_NoEc ==
    <<"m", "e", "t", "h", "y", "l", "t", "r", "a", "n", "s", "f", "e", "r",
      "a", "s", "e", " ", "2", ".", "1", ".", "1">>

InputLines ==
    {In_N9a, In_N9B, In_N10, In_O10, In_Deleted, In_NoSpace, In_Comment,
     In_NoEc}

InputFiles == SeqsUpTo(InputLines, MaxInLines)

-----------------------------------------------------------------------------
(* Specification of the pipeline: ec_to_type.py reads its input line by    *)
(* line, sorts and writes the sectioned file.                              *)

InitPipeline ==
    /\ mode = "pipeline"
    /\ lines \in InputFiles
    /\ pos = 1
    /\ pc = "read"
    /\ records = <<>>
    /\ skipped = 0
    /\ out_file = Pending
    /\ parser = None /\ df = <<>> /\ current_group = None
    /\ ec_to_group = <<>>
    /\ script = None /\ args = <<>> /\ table = <<>> /\ outputs = <<>>
    /\ error = None /\ gi = 0
    /\ ResolverIdle /\ ClassifierIdle /\ ExtractIdle

\* ec_to_type.py main: one iteration of the loop over the input lines
E_ReadLine ==
    /\ mode = "pipeline" /\ pc = "read"
    /\ pos <= Len(lines)
    /\ LET r == ParseLine(lines[pos])
       IN  /\ records' = IF r.kind = "row" THEN Append(records, r.row) ELSE records
           /\ skipped' = IF r.kind = "skipped" THEN skipped + 1 ELSE skipped
    /\ pos' = pos + 1
    /\ UNCHANGED <<mode, pc, out_file, lines, parser, df, current_group,
                   ec_to_group, script, args, table, outputs, error, gi,
                   resolverVars, classifierVars, extractVars>>

\* ec_to_type.py main: the rows are sorted and the blocks are written
E_SortAndWrite ==
    /\ mode = "pipeline" /\ pc = "read"
    /\ pos > Len(lines)
    /\ records' = SortRows(records)
    /\ out_file' = WrittenLines(OutLines(records', 1))
    /\ pc' = "written"
    /\ UNCHANGED <<mode, skipped, lines, pos, parser, df, current_group,
                   ec_to_group, script, args, table, outputs, error, gi,
                   resolverVars, classifierVars, extractVars>>

\* assign_groups_to_ec_summary.py main: ec_to_group = parse_mt_grouped(path)
\* on the file ec_to_type.py wrote
P_ParseMtGrouped ==
    /\ mode = "pipeline" /\ pc = "written"
    /\ parser' = "parse_mt_grouped"
    /\ ec_to_group' = parse_mt_grouped(out_file)
    /\ pc' = "parsed"
    /\ UNCHANGED <<typeVars, mode, lines, pos, df, current_group, script, args,
                   table, outputs, error, gi, resolverVars, classifierVars,
                   extractVars>>

\* split_mt2_by_group.py load_ec_to_group:
\* ec_to_group = parse_grouped_sectioned(path) on the file ec_to_type.py wrote
P_ParseSectioned ==
    /\ mode = "pipeline" /\ pc = "written"
    /\ parser' = "parse_grouped_sectioned"
    /\ ec_to_group' = parse_grouped_sectioned(out_file)
    /\ pc' = "parsed"
    /\ UNCHANGED <<typeVars, mode, lines, pos, df, current_group, script, args,
                   table, outputs, error, gi, resolverVars, classifierVars,
                   extractVars>>

\* a downstream row whose EC list is [e]: choose_group_for_ecs in
\* assign_groups_to_ec_summary.py, decide_row_group in split_mt2_by_group.py
R_ResolveRow ==
    /\ mode = "pipeline" /\ pc = "parsed"
    /\ \E e \in DOMAIN ec_to_group \cup {EC_2_1_1_1} :
          /\ ecs' = <<e>>
          /\ res_summary' = choose_group_for_ecs(<<e>>, ec_to_group)
          /\ res_split' = decide_row_group(<<e>>, ec_to_group)
    /\ pc' = "resolved"
    /\ UNCHANGED <<typeVars, mode, lines, pos, parser, df, current_group,
                   ec_to_group, ecs_b, script, args, table, outputs, error, gi,
                   classifierVars, extractVars>>

NextPipeline ==
    \/ E_ReadLine
    \/ E_SortAndWrite
    \/ P_ParseMtGrouped
    \/ P_ParseSectioned
    \/ R_ResolveRow

SpecPipeline == InitPipeline /\ [][NextPipeline]_vars

-----------------------------------------------------------------------------
(* Claims about the sectioned output of ec_to_type.py *)

Written == mode = "pipeline" /\ pc = "written"

\* the records of the parsed lines of the input file, in file order
RECURSIVE ParsedRecords(_)
ParsedRecords(ls) ==
    IF ls = <<>> THEN <<>>
    ELSE LET r == ParseLine(ls[Len(ls)])
             before == ParsedRecords(SubSeq(ls, 1, Len(ls) - 1))
         IN  IF r.kind = "row" THEN Append(before, r.row) ELSE before

\* the positions of the header lines of the written file, in file order
HeaderPositions ==
    LET hs == {i \in 1..Len(out_file) : out_file[i] # <<>> /\ out_file[i][1] = "#"}
    IN  [k \in 1..Cardinality(hs) |->
            CHOOSE i \in hs : Cardinality({j \in hs : j < i}) = k - 1]

\* the positions of the rows of the written file: the lines that are neither
\* a header, nor the column line, nor blank
RowPositions ==
    LET rs == {i \in 1..Len(out_file) :
                  /\ out_file[i] # <<>> /\ out_file[i][1] # "#"
                  /\ out_file[i] # Line_columns}
    IN  [k \in 1..Cardinality(rs) |->
            CHOOSE i \in rs : Cardinality({j \in rs : j < i}) = k - 1]

\* the block each row of the written file stands in (0 before the first
\* header)
RowBlocks ==
    LET H == HeaderPositions
        R == RowPositions
    IN  [n \in 1..Len(R) |-> Cardinality({k \in 1..Len(H) : H[k] <= R[n]})]

\* the integer components of an EC
EcComponents(ec) == [i \in 1..Len(SplitDot(ec)) |-> DecimalValue(SplitDot(ec)[i])]

\* record a may stand before record b in a block
InBlockOrder(a, b) ==
    \/ IntListLess(EcComponents(a.ec), EcComponents(b.ec))
    \/ /\ EcComponents(a.ec) = EcComponents(b.ec)
       /\ ~StrLess(Lower(b.name), Lower(a.name))

\* C11: the written file holds the eight blocks in the fixed order O_MT,
\* N_MT, C_MT, S_MT, UNCLEAR, OTHER, TRANSFERRED, DELETED; every parsed line
\* of the input is exactly one row, in the block of the tag classify gave it;
\* the count in each header is the number of rows of its block; and the rows
\* of a block stand in non-decreasing order of the integer components of the
\* EC, ties broken by the lowercased name.
C11_SectionedOutput ==
    Written =>
        LET P == ParsedRecords(lines)
            H == HeaderPositions
            R == RowPositions
            B == RowBlocks
            shown == [n \in 1..Len(P) |->
                        <<P[n].ec, CleanName(P[n].name), TagText(P[n].status)>>]
            cells == [n \in 1..Len(R) |-> SplitTab(out_file[R[n]])]
        IN  /\ Len(H) = Len(GroupOrder)
            /\ \A k \in 1..Len(GroupOrder) :
                  out_file[H[k]] =
                      <<"#", " ">> \o TagText(GroupOrder[k]) \o <<" ", "(">>
                      \o DecimalString(Cardinality({n \in 1..Len(R) : B[n] = k}))
                      \o <<")">>
            /\ Len(R) = Len(P)
            /\ \E pi \in Permutations(1..Len(P)) :
                  /\ \A n \in 1..Len(P) :
                        /\ cells[n] = shown[pi[n]]
                        /\ B[n] >= 1
                        /\ GroupOrder[B[n]] = P[pi[n]].group
                  /\ \A n, m \in 1..Len(P) :
                        (n < m /\ B[n] = B[m]) => InBlockOrder(P[pi[n]], P[pi[m]])

\* a file was written whose input holds 2.1.1.10 before 2.1.1.9 in the same
\* group, and two names of one EC that differ in case
C11_Witness ==
    /\ Written
    /\ \E i, j \in 1..Len(lines) : i < j /\ lines[i] = In_N10 /\ lines[j] = In_N9a
    /\ \E i \in 1..Len(lines) : lines[i] = In_N9B

-----------------------------------------------------------------------------
(* Specification of the two sectioned parsers on reference files whose     *)
(* headers hold a hyphen                                                    *)

RefLine_O_hyphen_MT ==
    <<"#", " ", "O", "-", "M", "T", " ", "(", "3", ")">>
RefLine_hyphen_O ==
    <<"#", "-", "O", "_", "M", "T">>
Group_O ==
    <<"O">>
Group_O_hyphen_MT ==
    <<"O", "-", "M", "T">>

HeaderFiles ==
    SeqsUpTo({RefLine_O_MT, RefLine_O_hyphen_MT, RefLine_hyphen_O, RefLine_EC1,
              RefLine_EC63},
             MaxLines)

InitHeaders ==
    /\ mode = "parse"
    /\ parser \in {"parse_mt_grouped", "parse_grouped_sectioned"}
    /\ lines \in HeaderFiles
    /\ df = <<>>
    /\ pos = 1
    /\ current_group = None
    /\ ec_to_group = <<>>
    /\ ResolverIdle /\ ClassifierIdle /\ ExtractIdle /\ RunIdle /\ TypeIdle

NextHeaders == ParseMtGroupedLine \/ ParseSectionedLine

SpecHeaders == InitHeaders /\ [][NextHeaders]_vars

-----------------------------------------------------------------------------
(* Claims about the header lines *)

\* the first run of letters, digits and underscores after the marker and the
\* whitespace that follows it, or None when no such character stands there
FirstRunAfterMarker(line) ==
    LET k == RunEnd(line, 2, Whitespace) + 1
        r == RunEnd(line, k, HeaderClass)
    IN  IF r >= k THEN SubSeq(line, k, r) ELSE None

\* equality of two header groups, each a string or None
SameGroup(a, b) ==
    IF a = None THEN b = None ELSE IF b = None THEN FALSE ELSE a = b

ParseOver == mode = "parse" /\ parser # "parse_grouped_table" /\ pos > Len(lines)

\* C12: for every header line both parse_mt_grouped and
\* parse_grouped_sectioned take as group the first run of letters, digits and
\* underscores after the marker ("# O-MT (3)" gives "O"), so the section a
\* parser is in carries that group and both parsers build the same
\* dictionary from the same reference text.
C12_SameHeaderGroup ==
    (mode = "parse" /\ parser # "parse_grouped_table") =>
        /\ \A i \in 1..Len(lines) :
              IsHeaderLine(lines[i]) =>
                  /\ SameGroup(HeaderGroupMt(Strip(lines[i])),
                               FirstRunAfterMarker(Strip(lines[i])))
                  /\ SameGroup(HeaderGroupSectioned(Strip(lines[i])),
                               FirstRunAfterMarker(Strip(lines[i])))
        /\ (pos > 1 /\ IsHeaderLine(lines[pos - 1])) =>
              SameGroup(current_group, FirstRunAfterMarker(Strip(lines[pos - 1])))
        /\ ParseOver =>
              /\ ec_to_group = parse_mt_grouped(lines)
              /\ ec_to_group = parse_grouped_sectioned(lines)

\* parse_grouped_sectioned has read an EC under the header "# O-MT (3)" and
\* entered it with the group O-MT, where parse_mt_grouped enters O
C12_HyphenGroup ==
    /\ ParseOver /\ parser = "parse_grouped_sectioned"
    /\ lines = <<RefLine_O_hyphen_MT, RefLine_EC1>>
    /\ ec_to_group[EC_2_1_1_1] = Group_O_hyphen_MT
    /\ parse_mt_grouped(lines)[EC_2_1_1_1] = Group_O

-----------------------------------------------------------------------------
(* Claims about the two stages together: ec_to_type.py writes, a sectioned  *)
(* parser reads                                                             *)

EC_2_1_1_10 ==
    <<"2", ".", "1", ".", "1", ".", "1", "0">>

Parsed == mode = "pipeline" /\ pc \in {"parsed", "resolved"}

\* the ECs of the records P
EcsOf(P) == {P[i].ec : i \in 1..Len(P)}

\* the tags classify gave to the records of P that carry the EC e
TagsOf(P, e) == {P[i].group : i \in {j \in 1..Len(P) : P[j].ec = e}}

\* the tag of e that comes first in the order of the blocks
FirstTag(P, e) == GroupOrder[Min({OrderIndex(g) : g \in TagsOf(P, e)})]

EightTags == {TagText(GroupOrder[i]) : i \in 1..Len(GroupOrder)}

\* C13: either sectioned parser, given the file ec_to_type.py wrote, returns a
\* dictionary whose keys are exactly the ECs of the parsed input lines and
\* whose values are among the eight tags; an EC maps to the tag of its line,
\* or, when its lines have different tags, to the one that comes first in
\* the order of the blocks; a row whose only EC is such an e resolves to
\* that tag in both resolvers.
C13_RoundTrip ==
    Parsed =>
        LET P == ParsedRecords(lines)
        IN  /\ DOMAIN ec_to_group = EcsOf(P)
            /\ \A e \in EcsOf(P) :
                  /\ ec_to_group[e] \in EightTags
                  /\ ec_to_group[e] = TagText(FirstTag(P, e))
                  /\ Cardinality(TagsOf(P, e)) = 1 =>
                        \A g \in TagsOf(P, e) : ec_to_group[e] = TagText(g)
            /\ (pc = "resolved" /\ ecs[1] \in EcsOf(P)) =>
                  /\ res_summary = TagText(FirstTag(P, ecs[1]))
                  /\ res_split = TagText(FirstTag(P, ecs[1]))

\* the EC 2.1.1.10 came with an N_MT name and then with an O_MT name, the EC
\* 2.1.1.9 with one name; parse_grouped_sectioned has read the written file
\* and the row with the EC 2.1.1.10 resolved to O_MT
C13_Witness ==
    /\ mode = "pipeline" /\ pc = "resolved"
    /\ parser = "parse_grouped_sectioned"
    /\ lines = <<In_N10, In_O10, In_N9a>>
    /\ ecs = <<EC_2_1_1_10>>
    /\ res_split = Group_O_MT
    /\ ec_to_group[EC_2_1_1_9] = Group_N_MT

-----------------------------------------------------------------------------
(* Specification of the runs of split_mt2_by_group.py on references whose   *)
(* groups come from a table or bear the names the script itself uses        *)

RefLine_TableRow_O_space_MT ==
    <<"2", ".", "1", ".", "1", ".", "6", "3", TAB, "O", " ", "M", "T">>
RefLine_group_counts ==
    <<"#", " ", "g", "r", "o", "u", "p", "_", "c", "o", "u", "n", "t", "s">>
RefLine_MULTIPLE ==
    <<"#", " ", "M", "U", "L", "T", "I", "P", "L", "E", " ", "(", "1", ")">>
Group_O_space_MT ==
    <<"O", " ", "M", "T">>
Group_group_counts ==
    <<"g", "r", "o", "u", "p", "_", "c", "o", "u", "n", "t", "s">>

\* reference files: two sections; a table with one group; a table whose two
\* groups differ in a character that is not safe in a file name; a section
\* named as the summary file is; a section named as a special bucket is; an
\* empty file
SplitRefFiles ==
    {<<RefLine_O_MT, RefLine_EC1, RefLine_N_MT, RefLine_EC63>>,
     <<RefLine_TableColumns, RefLine_TableRow>>,
     <<RefLine_TableColumns, RefLine_TableRow, RefLine_TableRow_O_space_MT>>,
     <<RefLine_group_counts, RefLine_EC1>>,
     <<RefLine_O_MT, RefLine_EC1, RefLine_MULTIPLE, RefLine_EC63>>,
     <<>>}

SplitRows ==
    {<<Cell_P1, c>> : c \in {EC_2_1_1_1, EC_2_1_1_63, EC_2_1_1_9, Cell_TwoECs, NaN}}

SplitTables ==
    {[columns |-> <<Header_Entry, Header_EC_number>>, rows |-> r] :
        r \in SeqsUpTo(SplitRows, MaxDataRows)}

InitSplit ==
    /\ mode = "run"
    /\ script = Script_split_mt2
    /\ pc = "start"
    /\ args \in RunArgs(script)
    /\ table \in SplitTables
    /\ lines \in SplitRefFiles
    /\ df = <<>>
    /\ ec_to_group = <<>>
    /\ outputs = <<>>
    /\ error = None
    /\ gi = 0
    /\ parser = None /\ pos = 0 /\ current_group = None
    /\ ResolverIdle /\ ClassifierIdle /\ ExtractIdle /\ TypeIdle

NextSplit == B_LoadReference \/ B_ReadData \/ B_WriteGroup \/ B_WriteCounts

SpecSplit == InitSplit /\ [][NextSplit]_vars

-----------------------------------------------------------------------------
(* Claims about the group files of split_mt2_by_group.py *)

SplitDone == mode = "run" /\ script = Script_split_mt2 /\ pc = "done"

GroupFile(g) == Stem \o <<"_">> \o sanitize_filename(g) \o Suffix
CountsFile == Stem \o Part_group_counts

\* the number of times r stands in the sequence rs
Occurrences(rs, r) == Cardinality({i \in 1..Len(rs) : rs[i] = r})

\* the tag of every row is a group of the dictionary or a special bucket;
\* every row stands, as often as in the input, in the file of its tag and in
\* no other group file; the group files hold as many rows as the input; two
\* different tags have two different files
RowsPartitioned ==
    LET tags == Column(df, Header_MT_group)
        groupFiles == DOMAIN outputs \ {CountsFile}
    IN  /\ Len(df.rows) = Len(table.rows)
        /\ \A i \in 1..Len(tags) :
              tags[i] \in {ec_to_group[e] : e \in DOMAIN ec_to_group}
                            \cup {Tag_MULTIPLE, Tag_MIXED, Tag_UNKNOWN, Tag_NO_EC}
        /\ \A i, j \in 1..Len(tags) :
              tags[i] # tags[j] => GroupFile(tags[i]) # GroupFile(tags[j])
        /\ \A i \in 1..Len(tags) :
              /\ GroupFile(tags[i]) \in groupFiles
              /\ \A f \in groupFiles :
                    Occurrences(outputs[f].rows, df.rows[i]) =
                        IF f = GroupFile(tags[i]) THEN Occurrences(df.rows, df.rows[i])
                        ELSE 0
        /\ SumOver(groupFiles, [f \in groupFiles |-> Len(outputs[f].rows)])
              = Len(table.rows)

\* C14: after a successful run of split_mt2_by_group.py every input row
\* stands in exactly one group file, that of its tag, which is a group of the
\* dictionary or one of MULTIPLE, MIXED, UNKNOWN, NO_EC; the rows of the group
\* files add up to the input rows; different tags have different files.
C14_RowsPartitioned == SplitDone => RowsPartitioned

\* the file names of the groups to write differ from each other and from the
\* name of the summary file
FileNamesDistinct ==
    LET all == AllGroups(ec_to_group)
    IN  /\ \A i, j \in 1..Len(all) : i # j => GroupFile(all[i]) # GroupFile(all[j])
        /\ \A i \in 1..Len(all) : GroupFile(all[i]) # CountsFile

\* What the run does guarantee: the rows are partitioned whenever the file
\* names are distinct.
Split_PartitionedWhenNamesDistinct ==
    (SplitDone /\ FileNamesDistinct) => RowsPartitioned

\* the groups "O MT" and "O_MT" of a table reference share the file
\* MT2_O_MT.tsv: the row of the group "O MT" was written to it and then
\* replaced by the row of the group "O_MT", and stands in no file
Split_RowLost ==
    /\ SplitDone
    /\ lines = <<RefLine_TableColumns, RefLine_TableRow, RefLine_TableRow_O_space_MT>>
    /\ table.rows = <<<<Cell_P1, EC_2_1_1_63>>, <<Cell_P1, EC_2_1_1_1>>>>
    /\ Column(df, Header_MT_group) = <<Group_O_space_MT, Group_O_MT>>
    /\ GroupFile(Group_O_space_MT) = GroupFile(Group_O_MT)
    /\ outputs[GroupFile(Group_O_MT)].rows = <<<<Cell_P1, EC_2_1_1_1, Group_O_MT>>>>
    /\ DOMAIN outputs = {GroupFile(Group_O_MT), CountsFile}
    /\ ~args.write_empty

====
